---- MODULE Spec2Model ----
(***************************************************************************)
(* A model of the cerise job service: the front-end request handlers of    *)
(* front_end/controllers/default_controller.py, the staging / destaging    *)
(* protocol of back_end/remote_job_files.py and the input resolver and     *)
(* result classifier of back_end/cwl.py.                                   *)
(*                                                                         *)
(* Text is modelled as a sequence of tokens, so that substring tests,      *)
(* prefix tests, slicing and line splitting are computed, not assumed.     *)
(***************************************************************************)
EXTENDS Integers, Sequences, FiniteSets, TLC

VARIABLES
    registry,   \* job store: job id -> job record (exists, state, please_delete)
    lock,       \* the job store's exclusive scope: owner and nesting depth
    req,        \* the front-end request in progress, or the last one completed
    clog,       \* classifier: the cwltool log text
    cresult,    \* classifier: the outcome returned for clog
    stderr_file,        \* remote jobs/<id>/stderr.txt (text; empty when absent)
    stdout_file,        \* remote jobs/<id>/stdout.txt (its JSON value, or EmptyText)
    job_remote_error,   \* the job's remote_error field
    job_remote_output,  \* the job's remote_output field
    debug_log,          \* the lines passed to job.debug, in order
    updates,            \* number of update_job calls made
    last_new,           \* number of lines the last update_job call passed to job.debug
    binding,            \* resolver: the CWL binding given to get_files_from_binding
    bresult,            \* resolver: what get_files_from_binding returned or raised
    dresult,            \* destaging: what destage_job_output returned or raised
    call_a,             \* filenames: one _create_input_filename call and its result
    call_b,             \* filenames: another call and its result
    workflow,           \* translator: the workflow document given, or NoDocument
    tresult,            \* translator: what translate_workflow returned or raised
    remote_fs,          \* the remote file system: the set of paths that exist on it
    managers,           \* which of RemoteJobFiles ("files") and RemoteApi ("api") are constructed
    job_paths,          \* staging: the seven remote path fields of the job
    staged_input,       \* staging: the input description last written to input.json
    stage_result,       \* staging: how the last stage_job call ended
    local_api,          \* installer: the local api directory last installed from
    sched_runs,         \* installer: the scripts the last install call submitted, in order
    install_result,     \* installer: how the last install call ended
    hint_doc,           \* core hints: the workflow last given to get_required_num_cores
    num_cores,          \* core hints: how that call ended
    step_doc,           \* api steps: the step document last given to _translate_api_step
    step_result         \* api steps: what that call returned or raised

lifeVars == <<registry, lock, req>>
classifyVars == <<clog, cresult>>
updateVars == <<stderr_file, stdout_file, job_remote_error, job_remote_output,
                debug_log, updates, last_new>>

bindingVars == <<binding, bresult>>
destageVars == <<dresult>>

filenameVars == <<call_a, call_b>>

translateVars == <<workflow, tresult>>

remoteVars == <<remote_fs, managers>>
stageVars == <<job_paths, staged_input, stage_result>>

\* The state of the staging and installing side of the back end.
installVars == <<local_api, sched_runs, install_result>>

hintVars == <<hint_doc, num_cores>>
stepVars == <<step_doc, step_result>>

apiVars == <<filenameVars, translateVars, remoteVars, stageVars, installVars, hintVars, stepVars>>

\* The state of the front end, the classifier, update_job, the resolver and
\* the destaging.
coreVars == <<lifeVars, classifyVars, updateVars, bindingVars, destageVars>>

\* All state but that of one part of the staging and installing side.
outsideFilename == <<coreVars, translateVars, remoteVars, stageVars, installVars, hintVars, stepVars>>
outsideTranslate == <<coreVars, filenameVars, remoteVars, stageVars, installVars, hintVars, stepVars>>
outsideRemote == <<coreVars, filenameVars, translateVars, hintVars, stepVars>>
outsideHints ==
    <<coreVars, filenameVars, translateVars, remoteVars, stageVars, installVars, stepVars>>
outsideSteps ==
    <<coreVars, filenameVars, translateVars, remoteVars, stageVars, installVars, hintVars>>

vars == <<coreVars, apiVars>>

nonLifeVars == <<classifyVars, updateVars, bindingVars, destageVars, apiVars>>

(***************************************************************************)
(* Bounds                                                                  *)
(***************************************************************************)
MaxJobs == 2
MaxFairJobs == 1
MaxLogLen == 4
MaxLines == 3
MaxLineLen == 1
MaxFileLen == 3
MaxUpdates == 3
MaxListLen == 2
MaxPathPieces == 3
MaxSteps == 2
MaxProjects == 2
MaxCores == 8
MaxScopeFiles == 2
MaxCommandLen == 3
MaxArguments == 2

JobIds == 1..MaxJobs

(***************************************************************************)
(* Text: a sequence of tokens.                                             *)
(***************************************************************************)
\* JSON text is held as the value it denotes; EmptyText is the empty string
\* '' (which denotes nothing), JsonText(b) the text json.loads reads as b.
EmptyText == [empty |-> TRUE, value |-> <<>>]

JsonText(b) == [empty |-> FALSE, value |-> b]

\* Python's `m in text` for strings: m occurs as a contiguous part of text.
Contains(text, m) ==
    \E i \in 1..(Len(text) - Len(m) + 1) : SubSeq(text, i, i + Len(m) - 1) = m

\* Python's text.startswith(prefix).
StartsWith(text, prefix) ==
    /\ Len(prefix) <= Len(text)
    /\ SubSeq(text, 1, Len(prefix)) = prefix

\* The line break character.
NL == "NL"

\* Index of the first line break of t, 0 when it has none.
FirstBreak(t) ==
    IF \E i \in 1..Len(t) : t[i] = NL
    THEN CHOOSE i \in 1..Len(t) : t[i] = NL /\ \A k \in 1..(i - 1) : t[k] # NL
    ELSE 0

\* Python's str.splitlines(): the lines of t without their line breaks; a
\* final line break opens no further, empty line.
RECURSIVE splitlines(_)
splitlines(t) ==
    IF t = <<>> THEN <<>>
    ELSE LET i == FirstBreak(t)
         IN IF i = 0 THEN <<t>>
            ELSE <<SubSeq(t, 1, i - 1)>> \o splitlines(SubSeq(t, i + 1, Len(t)))

(***************************************************************************)
(* CWL values and bindings.  A value is a record of its class, its         *)
(* location, its secondaryFiles list (empty when it has none) and, for a   *)
(* list, its items; a binding is the sequence of its (name, value) items   *)
(* in the order dict.items() gives them.                                   *)
(***************************************************************************)
None == "None"

File(location, secondaryFiles) ==
    [class |-> "File", location |-> location, secondaryFiles |-> secondaryFiles, items |-> <<>>]

Directory(location) ==
    [class |-> "Directory", location |-> location, secondaryFiles |-> <<>>, items |-> <<>>]

\* A dict of another class, or of none.
OtherDict == [class |-> "Other", location |-> <<>>, secondaryFiles |-> <<>>, items |-> <<>>]

\* A string or a number.
Scalar == [class |-> "scalar", location |-> <<>>, secondaryFiles |-> <<>>, items |-> <<>>]

List(items) == [class |-> "list", location |-> <<>>, secondaryFiles |-> <<>>, items |-> items]

\* isinstance(value, dict) and isinstance(value, list).
IsDict(value) == value.class \in {"File", "Directory", "Other"}
IsList(value) == value.class = "list"

(***************************************************************************)
(* Remote paths and locations: sequences of pieces of text.                *)
(***************************************************************************)
\* self._basedir / 'jobs' / job_id / 'work' for the job at hand.
WorkDir == <<"/base", "/jobs", "/id", "/work">>

\* 'file://' + str(work_dir) + '/'
Prefix == <<"file://">> \o WorkDir \o <<"/">>

\* work_dir / location
PathJoin(dir, rel) == IF rel = <<>> THEN dir ELSE dir \o <<"/">> \o rel

\* Locations inside the job's work directory, and outside it: another job's
\* work directory, and the work directory itself without the final slash.
InsideLocations == {Prefix \o <<"out.txt">>, Prefix \o <<"sub", "/", "b.txt">>}
OutsideLocations ==
    {<<"file://", "/base", "/jobs", "/other", "/work", "/", "out.txt">>,
     <<"file://">> \o WorkDir}
Locations == InsideLocations \cup OutsideLocations

\* The bindings the resolver and the destaging are run on: at most two
\* keys; a value is a File (with one of a few secondaryFiles lists), a list
\* of at most MaxListLen Files, Directories and scalars, a Directory,
\* another dict or a scalar.
SecondaryLists ==
    {<<>>, <<Scalar>>, <<OtherDict>>,
     <<Directory(Prefix \o <<"dir">>)>>,
     <<File(Prefix \o <<"out.txt.idx">>, <<>>)>>,
     <<File(Prefix \o <<"out.txt.idx">>, <<File(<<"file://", "/etc", "/", "passwd">>, <<>>)>>)>>,
     <<File(Prefix \o <<"out.txt.idx">>, <<Directory(Prefix \o <<"dir">>)>>)>>,
     <<File(Prefix \o <<"out.txt.idx">>, <<>>), Directory(Prefix \o <<"dir">>)>>,
     <<OtherDict, Directory(Prefix \o <<"dir">>)>>,
     <<Scalar, File(Prefix \o <<"out.txt.idx">>, <<>>)>>}

FileValues == {File(l, sf) : l \in Locations, sf \in SecondaryLists}
ListItems == {File(l, <<>>) : l \in Locations} \cup {Scalar, Directory(Prefix \o <<"dir">>)}
ListValues == {List(items) : items \in UNION {[1..n -> ListItems] : n \in 0..MaxListLen}}
Values == FileValues \cup ListValues \cup {Directory(Prefix \o <<"dir">>), OtherDict, Scalar}

Bindings ==
    {<<>>}
    \cup {<<[name |-> "a", value |-> v]>> : v \in Values}
    \cup {<<[name |-> "a", value |-> v], [name |-> "b", value |-> w]>> : v \in Values, w \in Values}

(***************************************************************************)
(* Job lifecycle states (cerise.job_store.job_state.JobState, as named     *)
(* by the front end and the classifier).                                   *)
(***************************************************************************)
BusyStates == {"SUBMITTED", "STAGING_IN", "WAITING", "RUNNING", "FINISHED", "STAGING_OUT"}
CRStates == {"STAGING_IN_CR", "WAITING_CR", "RUNNING_CR", "STAGING_OUT_CR"}
TerminalStates == {"SUCCESS", "PERMANENT_FAILURE", "TEMPORARY_FAILURE", "SYSTEM_ERROR", "CANCELLED"}
JobStates == BusyStates \cup CRStates \cup TerminalStates

\* A slot of the registry that holds no job.
NoJob == [exists |-> FALSE, state |-> "SUBMITTED", please_delete |-> FALSE]

\* create_job: a new record in the initial state.
NewJob == [exists |-> TRUE, state |-> "SUBMITTED", please_delete |-> FALSE]

\* Job.try_transition(from_state, to_state): a conditional no-op when the
\* job's current state is not from_state.
try_transition(job, from, to) ==
    IF job.state = from THEN [job EXCEPT !.state = to] ELSE job

(***************************************************************************)
(* The job store's scope (`with _job_store:`): one owner at a time,        *)
(* re-entrant for its owner.                                               *)
(***************************************************************************)
FreeLock == [owner |-> "none", depth |-> 0]

CanEnter(l, who) == l.owner \in {"none", who}

StoreEnter(l, who) == [owner |-> who, depth |-> l.depth + 1]

StoreExit(l, who) ==
    IF l.owner # who THEN l
    ELSE IF l.depth <= 1 THEN FreeLock
    ELSE [l EXCEPT !.depth = l.depth - 1]

(***************************************************************************)
(* Front end: cancel_job_by_id                                             *)
(***************************************************************************)
\* A variant for comparison: FINISHED is sent to STAGING_OUT, which the next
\* transition of the chain then picks up.
CancelChain_Chained ==
    << <<"SUBMITTED", "CANCELLED">>,
       <<"STAGING_IN", "STAGING_IN_CR">>,
       <<"WAITING", "WAITING_CR">>,
       <<"RUNNING", "RUNNING_CR">>,
       <<"FINISHED", "STAGING_OUT">>,
       <<"STAGING_OUT", "STAGING_OUT_CR">> >>

\* A variant for comparison: the arguments of one transition are swapped.
CancelChain_Swapped ==
    << <<"CANCELLED", "SUBMITTED">>,
       <<"STAGING_IN", "STAGING_IN_CR">>,
       <<"WAITING", "WAITING_CR">>,
       <<"RUNNING", "RUNNING_CR">>,
       <<"FINISHED", "CANCELLED">>,
       <<"STAGING_OUT", "STAGING_OUT_CR">> >>

\* A variant for comparison: the front end completes the cancellation of a running
\* job itself instead of leaving it to the polling cycle.
CancelChain_Direct ==
    << <<"SUBMITTED", "CANCELLED">>,
       <<"STAGING_IN", "STAGING_IN_CR">>,
       <<"WAITING", "WAITING_CR">>,
       <<"RUNNING", "RUNNING_CR">>,
       <<"RUNNING_CR", "CANCELLED">>,
       <<"STAGING_OUT", "STAGING_OUT_CR">> >>

\* A variant for comparison: a FINISHED job is left as it is.
CancelChain_KeepsFinished ==
    << <<"SUBMITTED", "CANCELLED">>,
       <<"STAGING_IN", "STAGING_IN_CR">>,
       <<"WAITING", "WAITING_CR">>,
       <<"RUNNING", "RUNNING_CR">>,
       <<"FINISHED", "FINISHED">>,
       <<"STAGING_OUT", "STAGING_OUT_CR">> >>

\* The six conditional transitions of cancel_job_by_id, in program order.
CancelChain ==
    << <<"SUBMITTED", "CANCELLED">>,
       <<"STAGING_IN", "STAGING_IN_CR">>,
       <<"WAITING", "WAITING_CR">>,
       <<"RUNNING", "RUNNING_CR">>,
       <<"FINISHED", "CANCELLED">>,
       <<"STAGING_OUT", "STAGING_OUT_CR">> >>

ChainLen == Len(CancelChain)

\* Positions of a request: PcIdle between requests, 1..ChainLen before the
\* transition of that number, PcChainDone after the last one (still inside
\* the scope), PcMark before delete_job_by_id sets please_delete.
PcIdle == 0
PcChainDone == ChainLen + 1
PcMark == ChainLen + 2

IdleReq == [op |-> "none", job |-> 0, pc |-> PcIdle, before |-> "SUBMITTED", fired |-> 0, code |-> 0]

Done(op, j, code) ==
    [op |-> op, job |-> j, pc |-> PcIdle, before |-> "SUBMITTED", fired |-> 0, code |-> code]

InChain == req.pc \in 1..PcChainDone

\* Entering cancel_job_by_id as request `op` ("cancel", or "delete" which
\* calls it from inside its own scope): `with _job_store:` and get_job.
\* get_job raises JobNotFound for an absent job; nothing here catches it,
\* so the request ends in an internal error and every scope is left.
\* A variant for comparison: the chain is run without entering the scope.
EnterCancel_NoScope(op, j) ==
    /\ req.pc = PcIdle
    /\ CanEnter(lock, "fe")
    /\ IF registry[j].exists
       THEN /\ lock' = lock
            /\ req' = [op |-> op, job |-> j, pc |-> 1,
                       before |-> registry[j].state, fired |-> 0, code |-> 0]
       ELSE /\ lock' = lock
            /\ req' = Done(op, j, 500)
    /\ UNCHANGED registry

EnterCancel(op, j) ==
    /\ req.pc = PcIdle
    /\ CanEnter(lock, "fe")
    /\ IF registry[j].exists
       THEN /\ lock' = (IF op = "delete"
                        THEN StoreEnter(StoreEnter(lock, "fe"), "fe")
                        ELSE StoreEnter(lock, "fe"))
            /\ req' = [op |-> op, job |-> j, pc |-> 1,
                       before |-> registry[j].state, fired |-> 0, code |-> 0]
       ELSE /\ lock' = lock
            /\ req' = Done(op, j, 500)
    /\ UNCHANGED registry

CancelBegin(j) == EnterCancel("cancel", j) /\ UNCHANGED nonLifeVars

\* One job.try_transition of the chain.
CancelStep ==
    /\ req.pc \in 1..ChainLen
    /\ LET t == CancelChain[req.pc]
           job == registry[req.job]
           new == try_transition(job, t[1], t[2])
       IN /\ registry' = [registry EXCEPT ![req.job] = new]
          /\ req' = [req EXCEPT !.pc = req.pc + 1,
                                !.fired = req.fired + (IF new # job THEN 1 ELSE 0)]
    /\ UNCHANGED <<lock, nonLifeVars>>

\* Leaving cancel_job_by_id's scope and answering with get_job_by_id.
CancelEnd ==
    /\ req.pc = PcChainDone
    /\ req.op = "cancel"
    /\ lock' = StoreExit(lock, "fe")
    /\ req' = [req EXCEPT !.pc = PcIdle, !.code = 200]
    /\ UNCHANGED <<registry, nonLifeVars>>

(***************************************************************************)
(* Front end: delete_job_by_id                                             *)
(***************************************************************************)
DeleteBegin(j) == EnterCancel("delete", j) /\ UNCHANGED nonLifeVars

\* A variant for comparison: the scope is left altogether when
\* cancel_job_by_id returns.
DeleteCancelled_LeavesScope ==
    /\ req.pc = PcChainDone
    /\ req.op = "delete"
    /\ lock' = FreeLock
    /\ req' = [req EXCEPT !.pc = PcMark]
    /\ UNCHANGED <<registry, nonLifeVars>>

\* cancel_job_by_id returns inside delete_job_by_id's scope.
DeleteCancelled ==
    /\ req.pc = PcChainDone
    /\ req.op = "delete"
    /\ lock' = StoreExit(lock, "fe")
    /\ req' = [req EXCEPT !.pc = PcMark]
    /\ UNCHANGED <<registry, nonLifeVars>>

\* job.please_delete = True, then the scope is left.
DeleteMark ==
    /\ req.pc = PcMark
    /\ registry' = [registry EXCEPT ![req.job].please_delete = TRUE]
    /\ lock' = StoreExit(lock, "fe")
    /\ req' = [req EXCEPT !.pc = PcIdle, !.code = 204]
    /\ UNCHANGED nonLifeVars

(***************************************************************************)
(* Front end: the read requests and post_job                               *)
(***************************************************************************)
GetJobById(j) ==
    /\ req.pc = PcIdle
    /\ CanEnter(lock, "fe")
    /\ req' = Done("get_job", j, IF registry[j].exists THEN 200 ELSE 404)
    /\ UNCHANGED <<registry, lock, nonLifeVars>>

GetJobLogById(j) ==
    /\ req.pc = PcIdle
    /\ CanEnter(lock, "fe")
    /\ req' = Done("get_job_log", j, IF registry[j].exists THEN 200 ELSE 404)
    /\ UNCHANGED <<registry, lock, nonLifeVars>>

GetJobs ==
    /\ req.pc = PcIdle
    /\ CanEnter(lock, "fe")
    /\ req' = Done("get_jobs", 0, 200)
    /\ UNCHANGED <<registry, lock, nonLifeVars>>

\* create_job gives the new job a fresh id: the lowest id not in use.
PostJob ==
    /\ req.pc = PcIdle
    /\ CanEnter(lock, "fe")
    /\ \E j \in JobIds :
        /\ ~registry[j].exists
        /\ \A k \in JobIds : k < j => registry[k].exists
        /\ registry' = [registry EXCEPT ![j] = NewJob]
        /\ req' = Done("post_job", j, 201)
    /\ UNCHANGED <<lock, nonLifeVars>>

(***************************************************************************)
(* The orchestrator's processing step for one job.  Every step is one      *)
(* scope of the job store around one try_transition.                       *)
(***************************************************************************)
Outcomes == {"SUCCESS", "PERMANENT_FAILURE", "TEMPORARY_FAILURE", "SYSTEM_ERROR"}

OrchTable ==
    {<<"SUBMITTED", "STAGING_IN">>, <<"STAGING_IN", "WAITING">>,
     <<"WAITING", "RUNNING">>, <<"RUNNING", "FINISHED">>,
     <<"FINISHED", "STAGING_OUT">>}
    \cup {<<"FINISHED", o>> : o \in Outcomes \ {"SUCCESS"}}
    \cup {<<"STAGING_OUT", o>> : o \in Outcomes}

OrchStep(j) ==
    /\ registry[j].exists
    /\ CanEnter(lock, "be")
    /\ lock.owner = "none"
    /\ \E t \in OrchTable :
        /\ registry[j].state = t[1]
        /\ registry' = [registry EXCEPT ![j] = try_transition(registry[j], t[1], t[2])]
    /\ UNCHANGED <<lock, req, nonLifeVars>>

\* The polling cycle sees a cancel-requested state, halts the remote
\* operation and completes the cancellation.
OrchCancel(j) ==
    /\ registry[j].exists
    /\ lock.owner = "none"
    /\ registry[j].state \in CRStates
    /\ registry' = [registry EXCEPT
                      ![j] = try_transition(registry[j], registry[j].state, "CANCELLED")]
    /\ UNCHANGED <<lock, req, nonLifeVars>>

FrontEndStep ==
    \/ \E j \in JobIds : CancelBegin(j)
    \/ CancelStep
    \/ CancelEnd
    \/ \E j \in JobIds : DeleteBegin(j)
    \/ DeleteCancelled
    \/ DeleteMark
    \/ \E j \in JobIds : GetJobById(j)
    \/ \E j \in JobIds : GetJobLogById(j)
    \/ GetJobs
    \/ PostJob

\* The state after construction, part by part.
LifeInit ==
    /\ registry = [j \in JobIds |-> NoJob]
    /\ lock = FreeLock
    /\ req = IdleReq

ClassifyInit == clog = <<>> /\ cresult = "none"

UpdateInit ==
    /\ stderr_file = <<>>
    /\ stdout_file = EmptyText
    /\ job_remote_error = <<>>
    /\ job_remote_output = EmptyText
    /\ debug_log = <<>>
    /\ updates = 0
    /\ last_new = 0

\* No call made yet.
NoResult == [outcome |-> "none", files |-> <<>>]

BindingInit == binding = <<>> /\ bresult = NoResult

DestageInit == dresult = NoResult

\* No call of _create_input_filename made yet.
NoCall == [made |-> FALSE, prefix |-> <<>>, path |-> <<>>, name |-> <<>>]

FilenameInit == call_a = NoCall /\ call_b = NoCall

\* No document given yet, and no call of translate_workflow made yet.
NoDocument == [has_steps |-> FALSE, steps |-> <<>>, cwlVersion |-> "none"]
NoTranslation == [outcome |-> "none", document |-> NoDocument]

TranslateInit == workflow = NoDocument /\ tresult = NoTranslation

\* Nothing exists remotely and neither manager is constructed.
RemoteInit == remote_fs = {} /\ managers = {}

\* The path fields of a new job are empty; no stage_job call made yet.
PathFields ==
    {"remote_workdir_path", "remote_workflow_path", "remote_input_path",
     "remote_stdout_path", "remote_stderr_path", "remote_system_out_path",
     "remote_system_err_path"}
EmptyPaths == [f \in PathFields |-> <<>>]
NoInput == [written |-> FALSE, inputs |-> <<>>]
NoStage == [outcome |-> "none", count |-> 0]

StageInit == job_paths = EmptyPaths /\ staged_input = NoInput /\ stage_result = NoStage

\* No install call made yet.
NoInstall == [outcome |-> "none", at |-> 0]

InstallInit == local_api = <<>> /\ sched_runs = <<>> /\ install_result = NoInstall

\* A field of a YAML mapping: not there, there with the value null, or
\* there with a number.
YamlAbsent == [kind |-> "absent", n |-> 0]
YamlNull == [kind |-> "null", n |-> 0]
YamlInt(n) == [kind |-> "int", n |-> n]

\* No call of get_required_num_cores made yet.
NoHints ==
    [hints |-> "absent", ResourceRequirement |-> "absent",
     coresMin |-> YamlAbsent, coresMax |-> YamlAbsent]
NoCores == [outcome |-> "none", value |-> 0]

HintInit == hint_doc = NoHints /\ num_cores = NoCores

\* No call of _translate_api_step made yet.
NoStep ==
    [project |-> "", class |-> "none", baseCommand |-> [kind |-> "absent", s |-> <<>>],
     arguments |-> [kind |-> "absent", items |-> <<>>]]
NoStepResult == [outcome |-> "none", cwlfile |-> NoStep]

StepInit == step_doc = NoStep /\ step_result = NoStepResult

ApiInit ==
    /\ FilenameInit /\ TranslateInit /\ RemoteInit /\ StageInit /\ InstallInit
    /\ HintInit /\ StepInit

Init ==
    /\ LifeInit /\ ClassifyInit /\ UpdateInit /\ BindingInit /\ DestageInit
    /\ ApiInit

Next ==
    \/ \E j \in JobIds : CancelBegin(j)
    \/ CancelStep
    \/ CancelEnd
    \/ \E j \in JobIds : DeleteBegin(j)
    \/ DeleteCancelled
    \/ DeleteMark
    \/ \E j \in JobIds : GetJobById(j)
    \/ \E j \in JobIds : GetJobLogById(j)
    \/ GetJobs
    \/ PostJob
    \/ \E j \in JobIds : OrchStep(j)
    \/ \E j \in JobIds : OrchCancel(j)

Spec == Init /\ [][Next]_vars

(***************************************************************************)
(* Fairness: a request that has started runs on to its end, and the        *)
(* orchestrator's polling cycle of every job is scheduled fairly: it gets  *)
(* the store's scope again and again, also when requests contend for it.   *)
(***************************************************************************)
RequestProgress == CancelStep \/ CancelEnd \/ DeleteCancelled \/ DeleteMark

\* The liveness check runs on the jobs 1..MaxFairJobs only.
FairJobs == 1..MaxFairJobs

FairNext == Next /\ \A j \in JobIds \ FairJobs : ~registry'[j].exists

FairSpec ==
    /\ Init /\ [][FairNext]_vars
    /\ WF_vars(RequestProgress)
    /\ \A j \in FairJobs : SF_vars(OrchCancel(j))

(***************************************************************************)
(* Properties of the job lifecycle                                         *)
(***************************************************************************)
\* The state a cancellation is to leave a job in, by the job's state when
\* the request entered its scope.
CancelTarget(s) ==
    CASE s \in {"SUBMITTED", "FINISHED"} -> "CANCELLED"
      [] s = "STAGING_IN" -> "STAGING_IN_CR"
      [] s = "WAITING" -> "WAITING_CR"
      [] s = "RUNNING" -> "RUNNING_CR"
      [] s = "STAGING_OUT" -> "STAGING_OUT_CR"
      [] OTHER -> s

\* C1: one cancel_job_by_id request fires at most one of its six
\* conditional transitions; when the job was SUBMITTED, STAGING_IN, WAITING,
\* RUNNING, FINISHED or STAGING_OUT it fires exactly one, which takes
\* SUBMITTED and FINISHED to CANCELLED and the other four to their own _CR
\* state; in every other state it fires none and the state stays.
C1_CancelFiresOne ==
    InChain =>
        /\ req.fired <= 1
        /\ req.pc = PcChainDone =>
            /\ req.before \in BusyStates =>
                /\ req.fired = 1
                /\ registry[req.job].state = CancelTarget(req.before)
            /\ req.before \notin BusyStates =>
                /\ req.fired = 0
                /\ registry[req.job].state = req.before

\* A cancellation of a FINISHED job has run its whole chain: the case in
\* which a transition fired in the chain could feed a later one.
C1_Witness ==
    /\ req.op = "cancel"
    /\ req.pc = PcChainDone
    /\ req.before = "FINISHED"
    /\ req.fired = 1

\* C2: no step of a front-end request changes the lifecycle state of a job
\* that is in a CR shadow state or in a terminal state.
C2_FrontEndKeepsCRAndTerminal ==
    [][FrontEndStep =>
        \A j \in JobIds :
            (registry[j].exists /\ registry[j].state \in CRStates \cup TerminalStates)
                => registry'[j].state = registry[j].state]_vars

\* A cancellation and a deletion have each run their chain on a job that
\* was in a CR or terminal state when the request came in.
C2_Witness ==
    /\ req.pc = PcChainDone
    /\ req.op = "delete"
    /\ req.before \in CRStates
    /\ registry[req.job].state = req.before

\* C3: the six transitions of a cancellation run inside one exclusive
\* scope: while the request is in its chain the front end owns the scope,
\* every change of the registry is the request's own transition, and the
\* record it works on is the one it found, changed by its own transition
\* only (so the job is never moved twice by one request).
C3_CancelChainExclusive ==
    [][InChain =>
        /\ lock.owner = "fe"
        /\ registry' # registry => CancelStep
        /\ registry[req.job].state \in {req.before, CancelTarget(req.before)}
        /\ req.fired = (IF registry[req.job].state = req.before THEN 0 ELSE 1)]_vars

\* A cancellation that found the job in STAGING_IN stands before its
\* STAGING_IN transition while the orchestrator has a step to take on the
\* same job (STAGING_IN to WAITING).
C3_Witness ==
    /\ req.op = "cancel"
    /\ req.pc = 2
    /\ req.before = "STAGING_IN"
    /\ registry[req.job].state = "STAGING_IN"
    /\ lock.owner = "fe"

\* C4: a job in a CR shadow state changes state only to CANCELLED and only
\* by its own polling cycle, and under fair scheduling of that cycle it
\* eventually is CANCELLED.
C4_CRLeadsToCancelled ==
    /\ [][\A j \in JobIds :
            (registry[j].state \in CRStates /\ registry'[j].state # registry[j].state)
                => (registry'[j].state = "CANCELLED" /\ OrchCancel(j))]_vars
    /\ \A j \in JobIds :
            (registry[j].exists /\ registry[j].state \in CRStates)
                ~> (registry[j].state = "CANCELLED")

\* A job that was RUNNING when its cancellation came in is CANCELLED: it
\* went through RUNNING_CR and the polling cycle completed the cancellation.
C4_Witness ==
    /\ req.op = "cancel"
    /\ req.pc = PcIdle
    /\ req.code = 200
    /\ req.before = "RUNNING"
    /\ registry[req.job].state = "CANCELLED"

(***************************************************************************)
(* Result classifier: cwl.get_cwltool_result                               *)
(***************************************************************************)
\* The log is a sequence of pieces of text: the four pieces the markers are
\* made of and a piece of any other text.
Phrase == "Final process status is "
LogTokens == {"Tool definition failed validation:", Phrase,
              "permanentFail", "temporaryFail", "success", "other"}

ValidationMarker == <<"Tool definition failed validation:">>
PermanentMarker == <<Phrase, "permanentFail">>
TemporaryMarker == <<Phrase, "temporaryFail">>
SuccessMarker == <<Phrase, "success">>

\* A variant for comparison: the success test comes first.
get_cwltool_result_SuccessFirst(cwltool_log) ==
    IF Contains(cwltool_log, SuccessMarker) THEN "SUCCESS"
    ELSE IF Contains(cwltool_log, ValidationMarker) THEN "PERMANENT_FAILURE"
    ELSE IF Contains(cwltool_log, PermanentMarker) THEN "PERMANENT_FAILURE"
    ELSE IF Contains(cwltool_log, TemporaryMarker) THEN "TEMPORARY_FAILURE"
    ELSE "SYSTEM_ERROR"

get_cwltool_result(cwltool_log) ==
    IF Contains(cwltool_log, ValidationMarker) THEN "PERMANENT_FAILURE"
    ELSE IF Contains(cwltool_log, PermanentMarker) THEN "PERMANENT_FAILURE"
    ELSE IF Contains(cwltool_log, TemporaryMarker) THEN "TEMPORARY_FAILURE"
    ELSE IF Contains(cwltool_log, SuccessMarker) THEN "SUCCESS"
    ELSE "SYSTEM_ERROR"

\* The runner writes one more piece of text to its log.
WriteLog ==
    /\ Len(clog) < MaxLogLen
    /\ \E tok \in LogTokens : clog' = Append(clog, tok)
    /\ cresult' = "none"
    /\ UNCHANGED <<lifeVars, updateVars, bindingVars, destageVars, apiVars>>

\* The log is classified.
Classify ==
    /\ cresult' = get_cwltool_result(clog)
    /\ UNCHANGED <<clog, lifeVars, updateVars, bindingVars, destageVars, apiVars>>

ClassifyNext == WriteLog \/ Classify

SpecClassify == Init /\ [][ClassifyNext]_vars

\* Whether piece `tok` directly follows the phrase somewhere in the log.
StatusIs(tok) ==
    \E i \in 1..(Len(clog) - 1) : clog[i] = Phrase /\ clog[i + 1] = tok

HasValidationFailure == \E i \in 1..Len(clog) : clog[i] = "Tool definition failed validation:"

\* C5: every classified log has exactly one outcome, by strict priority:
\* PERMANENT_FAILURE with a validation-failure or permanentFail marker, else
\* TEMPORARY_FAILURE with a temporaryFail marker, else SUCCESS with a success
\* marker, else SYSTEM_ERROR.
C5_ClassifierPriority ==
    cresult # "none" =>
        /\ cresult \in Outcomes
        /\ (HasValidationFailure \/ StatusIs("permanentFail"))
              <=> cresult = "PERMANENT_FAILURE"
        /\ (~HasValidationFailure /\ ~StatusIs("permanentFail") /\ StatusIs("temporaryFail"))
              <=> cresult = "TEMPORARY_FAILURE"
        /\ (~HasValidationFailure /\ ~StatusIs("permanentFail") /\ ~StatusIs("temporaryFail")
                /\ StatusIs("success"))
              <=> cresult = "SUCCESS"
        /\ (~HasValidationFailure /\ ~StatusIs("permanentFail") /\ ~StatusIs("temporaryFail")
                /\ ~StatusIs("success"))
              <=> cresult = "SYSTEM_ERROR"

\* A log with a success marker followed by a validation failure has been
\* classified, as a permanent failure.
C5_Witness ==
    /\ clog = <<Phrase, "success", "Tool definition failed validation:">>
    /\ cresult = "PERMANENT_FAILURE"

(***************************************************************************)
(* RemoteJobFiles.update_job                                               *)
(***************************************************************************)
\* The characters of the runner's standard error: two letters and the line
\* break.
Letters == {"a", "b"}
Chars == Letters \cup {NL}

\* The texts of at most n characters over the set cs.
TextsUpTo(cs, n) == UNION {[1..k -> cs] : k \in 0..n}

\* A variant for comparison: every line of the file is passed on, not only the new
\* ones.
NewLines_All(log, remote_error) == splitlines(log)

\* lines[first_new_line:], the lines of the file beyond the number of lines
\* of the text recorded so far.
NewLines(log, remote_error) ==
    LET lines == splitlines(log)
        last_lines == splitlines(remote_error)
        first_new_line == Len(last_lines)
    IN SubSeq(lines, first_new_line + 1, Len(lines))

\* One call of update_job.  _read_remote_file gives the empty text for a
\* file that does not exist.
UpdateJob ==
    /\ job_remote_output' = (IF ~stdout_file.empty THEN stdout_file ELSE job_remote_output)
    /\ IF Len(stderr_file) > 0
       THEN /\ debug_log' = debug_log \o NewLines(stderr_file, job_remote_error)
            /\ last_new' = Len(NewLines(stderr_file, job_remote_error))
            /\ job_remote_error' = stderr_file
       ELSE /\ last_new' = 0
            /\ UNCHANGED <<debug_log, job_remote_error>>
    /\ updates' = (IF updates < MaxUpdates THEN updates + 1 ELSE updates)
    /\ UNCHANGED <<stderr_file, stdout_file, lifeVars, classifyVars, bindingVars, destageVars, apiVars>>

\* The runner writes its output binding to stdout.txt.
SampleOutput == << [name |-> "out", value |-> Scalar] >>

WriteStdout ==
    /\ stdout_file.empty
    /\ stdout_file' = JsonText(SampleOutput)
    /\ UNCHANGED <<stderr_file, job_remote_error, job_remote_output, debug_log,
                   updates, last_new, lifeVars, classifyVars, bindingVars, destageVars, apiVars>>

\* The runner appends one whole line to stderr.txt.
AppendLine ==
    /\ Len(splitlines(stderr_file)) < MaxLines
    /\ \E line \in TextsUpTo(Letters, MaxLineLen) :
          stderr_file' = stderr_file \o line \o <<NL>>
    /\ UNCHANGED <<stdout_file, job_remote_error, job_remote_output, debug_log,
                   updates, last_new, lifeVars, classifyVars, bindingVars, destageVars, apiVars>>

\* stderr.txt is replaced by any text at all.
RewriteStderr ==
    /\ \E text \in TextsUpTo(Chars, MaxFileLen) : stderr_file' = text
    /\ UNCHANGED <<stdout_file, job_remote_error, job_remote_output, debug_log,
                   updates, last_new, lifeVars, classifyVars, bindingVars, destageVars, apiVars>>

\* update_job polling a stderr.txt that grows by whole lines.
UpdateNext == UpdateJob \/ WriteStdout \/ AppendLine

SpecUpdate == Init /\ [][UpdateNext]_vars

\* update_job polling a stderr.txt that may hold anything at each call; the
\* run ends after MaxUpdates calls.
UpdateAnyNext ==
    \/ updates < MaxUpdates /\ UpdateJob
    \/ updates < MaxUpdates /\ RewriteStderr

SpecUpdateAny == Init /\ [][UpdateAnyNext]_vars

\* The whole lines of a text: its pieces that end in a line break.
RECURSIVE WholeLines(_)
WholeLines(t) ==
    IF \A i \in 1..Len(t) : t[i] # NL THEN <<>>
    ELSE LET i == CHOOSE k \in 1..Len(t) : t[k] = NL /\ \A m \in 1..(k - 1) : t[m] # NL
         IN <<SubSeq(t, 1, i - 1)>> \o WholeLines(SubSeq(t, i + 1, Len(t)))

\* C6: while stderr.txt grows by whole lines, after every update_job call
\* the lines passed to the job's log are exactly the lines of the file, each
\* once and in file order.
C6_EachLineLoggedOnce ==
    [][UpdateJob => debug_log' = WholeLines(stderr_file')]_vars

\* A second or later call has passed on lines that were appended after
\* lines logged by an earlier call.
C6_Witness ==
    /\ updates >= 2
    /\ last_new >= 1
    /\ Len(debug_log) > last_new
    /\ debug_log = WholeLines(stderr_file)

\* Whether p is a prefix of t.
IsPrefix(p, t) == Len(p) <= Len(t) /\ SubSeq(t, 1, Len(p)) = p

\* C7: whatever stderr.txt holds, the remote_error held before an update_job
\* call is a prefix of the remote_error held after it.
C7_RemoteErrorOnlyGrows ==
    [][UpdateJob => IsPrefix(job_remote_error, job_remote_error')]_vars

(***************************************************************************)
(* Input resolver: InputFile, cwl.get_secondary_files and                  *)
(* cwl.get_files_from_binding.  A call gives a record of its outcome       *)
(* ("ok", or the error raised) and the list returned (empty on an error).  *)
(***************************************************************************)
Raise(error) == [outcome |-> error, files |-> <<>>]
Return(files) == [outcome |-> "ok", files |-> files]

\* InputFile.__init__(self, name, location, content, secondary_files) takes
\* four arguments besides self; Python raises TypeError on a call with any
\* other number.  The result is the object made, or the error.
InputFileArity == 4

InputFile(args) ==
    IF Len(args) = InputFileArity
    THEN [outcome |-> "ok",
          file |-> [name |-> args[1], location |-> args[2], content |-> args[3],
                    secondary_files |-> args[4]]]
    ELSE [outcome |-> "TypeError",
          file |-> [name |-> None, location |-> <<>>, content |-> None,
                    secondary_files |-> <<>>]]

RECURSIVE get_secondary_files(_), SecondaryLoop(_, _, _)

RECURSIVE SecondaryLoop_SkipDirectory(_, _, _)

\* A variant for comparison: a Directory entry is passed over like an
\* entry that is not a dict.
SecondaryLoop_SkipDirectory(secondary_files, k, result) ==
    IF k > Len(secondary_files) THEN Return(result)
    ELSE LET value == secondary_files[k]
         IN IF ~IsDict(value) \/ value.class = "Directory"
            THEN SecondaryLoop_SkipDirectory(secondary_files, k + 1, result)
            ELSE IF value.class = "File"
            THEN LET made == InputFile(<<None, value.location, None, <<>> >>)
                     sub == get_secondary_files(value.secondaryFiles)
                 IN IF made.outcome # "ok" THEN Raise(made.outcome)
                    ELSE IF sub.outcome # "ok" THEN Raise(sub.outcome)
                    ELSE SecondaryLoop_SkipDirectory(secondary_files, k + 1,
                            Append(result, [made.file EXCEPT !.secondary_files = sub.files]))
            ELSE Raise("Invalid")

\* The loop of get_secondary_files from entry k on, with `result` so far.
\* An entry that is not a dict is passed over.
SecondaryLoop(secondary_files, k, result) ==
    IF k > Len(secondary_files) THEN Return(result)
    ELSE LET value == secondary_files[k]
         IN IF ~IsDict(value) THEN SecondaryLoop(secondary_files, k + 1, result)
            ELSE IF value.class = "File"
            THEN LET made == InputFile(<<None, value.location, None, <<>> >>)
                     sub == get_secondary_files(value.secondaryFiles)
                 IN IF made.outcome # "ok" THEN Raise(made.outcome)
                    ELSE IF sub.outcome # "ok" THEN Raise(sub.outcome)
                    ELSE SecondaryLoop(secondary_files, k + 1,
                            Append(result, [made.file EXCEPT !.secondary_files = sub.files]))
            ELSE IF value.class = "Directory" THEN Raise("Unsupported")
            ELSE Raise("Invalid")

get_secondary_files(secondary_files) == SecondaryLoop(secondary_files, 1, <<>>)

RECURSIVE ListLoop(_, _, _, _)

\* The loop over a list value from position k on (enumerate counts from 0).
\* The InputFile of a File element is made with five arguments: name,
\* location, content, secondary files and the position.
ListLoop(name, items, k, result) ==
    IF k > Len(items) THEN Return(result)
    ELSE LET val == items[k]
             i == k - 1
         IN IF IsDict(val) /\ val.class = "File"
            THEN LET sec == get_secondary_files(val.secondaryFiles)
                     made == InputFile(<<name, val.location, None, sec.files, i>>)
                 IN IF sec.outcome # "ok" THEN Raise(sec.outcome)
                    ELSE IF made.outcome # "ok" THEN Raise(made.outcome)
                    ELSE ListLoop(name, items, k + 1, Append(result, made.file))
            ELSE ListLoop(name, items, k + 1, result)

RECURSIVE BindingLoop(_, _, _)

\* The loop over cwl_binding.items() from item k on.
BindingLoop(cwl_binding, k, result) ==
    IF k > Len(cwl_binding) THEN Return(result)
    ELSE LET name == cwl_binding[k].name
             value == cwl_binding[k].value
         IN IF IsDict(value) /\ value.class = "File"
            THEN LET sec == get_secondary_files(value.secondaryFiles)
                     made == InputFile(<<name, value.location, None, sec.files>>)
                 IN IF sec.outcome # "ok" THEN Raise(sec.outcome)
                    ELSE IF made.outcome # "ok" THEN Raise(made.outcome)
                    ELSE BindingLoop(cwl_binding, k + 1, Append(result, made.file))
            ELSE IF IsList(value)
            THEN LET sub == ListLoop(name, value.items, 1, result)
                 IN IF sub.outcome # "ok" THEN Raise(sub.outcome)
                    ELSE BindingLoop(cwl_binding, k + 1, sub.files)
            ELSE BindingLoop(cwl_binding, k + 1, result)

get_files_from_binding(cwl_binding) == BindingLoop(cwl_binding, 1, <<>>)

\* A binding arrives.
GiveBinding ==
    /\ bresult = NoResult
    /\ binding = <<>>
    /\ binding' \in Bindings \ {<<>>}
    /\ UNCHANGED <<bresult, lifeVars, classifyVars, updateVars, destageVars, apiVars>>

\* get_files_from_binding is called on it.
Resolve ==
    /\ bresult' = get_files_from_binding(binding)
    /\ UNCHANGED <<binding, lifeVars, classifyVars, updateVars, destageVars, apiVars>>

BindingNext == GiveBinding \/ Resolve

SpecBinding == Init /\ [][BindingNext]_vars

\* The File-class values of a binding in the order the resolver meets them,
\* each as (name, index, location); the index is <<i>> for position i of a
\* list and <<>> for a value that is not in a list.
RECURSIVE FilesOfList(_, _, _)
FilesOfList(name, items, k) ==
    IF k > Len(items) THEN <<>>
    ELSE (IF items[k].class = "File"
          THEN <<[name |-> name, index |-> <<k - 1>>, location |-> items[k].location]>>
          ELSE <<>>)
         \o FilesOfList(name, items, k + 1)

RECURSIVE FilesOfBinding(_, _)
FilesOfBinding(b, k) ==
    IF k > Len(b) THEN <<>>
    ELSE (IF b[k].value.class = "File"
          THEN <<[name |-> b[k].name, index |-> <<>>, location |-> b[k].value.location]>>
          ELSE IF b[k].value.class = "list"
          THEN FilesOfList(b[k].name, b[k].value.items, 1)
          ELSE <<>>)
         \o FilesOfBinding(b, k + 1)

\* What an InputFile says of its name, index and location (an object
\* without an index attribute says no index).
Described(f) ==
    [name |-> f.name,
     index |-> (IF "index" \in DOMAIN f THEN f.index ELSE <<>>),
     location |-> f.location]

NoSecondaryFiles(b) ==
    \A k \in 1..Len(b) :
        /\ b[k].value.secondaryFiles = <<>>
        /\ \A n \in 1..Len(b[k].value.items) : b[k].value.items[n].secondaryFiles = <<>>

\* C10: for a binding whose files have no secondary files,
\* get_files_from_binding returns one InputFile per File-class value at a
\* top-level key (its key as name, no index) and per File-class element of
\* a list-valued key (the key as name, its position as index, its
\* location), in order, and nothing for the other values.
C10_FilesFromBinding ==
    (bresult # NoResult /\ NoSecondaryFiles(binding)) =>
        /\ bresult.outcome = "ok"
        /\ Len(bresult.files) = Len(FilesOfBinding(binding, 1))
        /\ \A k \in 1..Len(bresult.files) :
              Described(bresult.files[k]) = FilesOfBinding(binding, 1)[k]

\* The secondaryFiles lists of the File values of a binding: those at its
\* keys and those that are elements of its lists.
SecondaryListsOf(b) ==
    {b[k].value.secondaryFiles : k \in {m \in 1..Len(b) : b[m].value.class = "File"}}
    \cup UNION {{b[k].value.items[n].secondaryFiles :
                    n \in {m \in 1..Len(b[k].value.items) :
                              b[k].value.items[m].class = "File"}} :
                k \in 1..Len(b)}

\* Whether a secondaryFiles list has an entry of the given class at any
\* depth, from entry k on.
RECURSIVE HasEntryOfClass(_, _, _)
HasEntryOfClass(secondary_files, class, k) ==
    /\ k <= Len(secondary_files)
    /\ \/ secondary_files[k].class = class
       \/ /\ secondary_files[k].class = "File"
          /\ HasEntryOfClass(secondary_files[k].secondaryFiles, class, 1)
       \/ HasEntryOfClass(secondary_files, class, k + 1)

DirectoryLists(b) == {sf \in SecondaryListsOf(b) : HasEntryOfClass(sf, "Directory", 1)}

\* Whether a list-valued key of the binding has a File element.
HasFileInList(b) ==
    \E k \in 1..Len(b) : \E n \in 1..Len(b[k].value.items) :
        b[k].value.items[n].class = "File"

HasDirectoryValue(b) ==
    \E k \in 1..Len(b) :
        \/ b[k].value.class = "Directory"
        \/ \E n \in 1..Len(b[k].value.items) : b[k].value.items[n].class = "Directory"

\* C12: a Directory-class value of the binding itself (at a top-level key
\* or as an element of a list-valued key) makes the resolver raise the
\* unsupported-feature error; it is not omitted from the files returned.
C12_DirectoryValueReported ==
    (bresult # NoResult /\ HasDirectoryValue(binding)) => bresult = Raise("Unsupported")

\* Whether a secondaryFiles list has, at any depth, an entry that is
\* neither a File nor a Directory.
OtherShapeLists(b) ==
    {sf \in SecondaryListsOf(b) :
        HasEntryOfClass(sf, "Other", 1) \/ HasEntryOfClass(sf, "scalar", 1)
            \/ HasEntryOfClass(sf, "list", 1)}

\* C13: an entry of a secondaryFiles list that is neither a File-class nor
\* a Directory-class object makes get_secondary_files raise the validation
\* error; no such entry is skipped.
C13_OtherEntryIsValidationError ==
    bresult # NoResult =>
        \A sf \in OtherShapeLists(binding) : get_secondary_files(sf) = Raise("Invalid")

(***************************************************************************)
(* RemoteJobFiles.destage_job_output                                       *)
(***************************************************************************)
RECURSIVE DestageLoop_KeepLocation(_, _, _)

\* The loop without the rewriting of the location: the file keeps its
\* file:// location and the source is joined from that.
DestageLoop_KeepLocation(output_files_in, k, output_files) ==
    IF k > Len(output_files_in) THEN Return(output_files)
    ELSE LET output_file == output_files_in[k]
         IN IF ~StartsWith(output_file.location, Prefix)
            THEN Raise("UnexpectedLocation")
            ELSE DestageLoop_KeepLocation(output_files_in, k + 1,
                        Append(output_files,
                               [name |-> output_file.name,
                                location |-> output_file.location,
                                content |-> output_file.content,
                                secondary_files |-> output_file.secondary_files,
                                source |-> PathJoin(WorkDir, output_file.location)]))

RECURSIVE DestageLoop(_, _, _)

\* The loop of destage_job_output over the resolved files from file k on,
\* with the list output_files so far.  The exception leaves the function:
\* nothing is returned.
DestageLoop(output_files_in, k, output_files) ==
    IF k > Len(output_files_in) THEN Return(output_files)
    ELSE LET output_file == output_files_in[k]
         IN IF ~StartsWith(output_file.location, Prefix)
            THEN Raise("UnexpectedLocation")
            ELSE LET location == SubSeq(output_file.location, Len(Prefix) + 1,
                                        Len(output_file.location))
                 IN DestageLoop(output_files_in, k + 1,
                        Append(output_files,
                               [name |-> output_file.name, location |-> location,
                                content |-> output_file.content,
                                secondary_files |-> output_file.secondary_files,
                                source |-> PathJoin(WorkDir, location)]))

destage_job_output(remote_output) ==
    IF ~remote_output.empty
    THEN LET resolved == get_files_from_binding(remote_output.value)
         IN IF resolved.outcome # "ok" THEN Raise(resolved.outcome)
            ELSE DestageLoop(resolved.files, 1, <<>>)
    ELSE Return(<<>>)

\* update_job has recorded the runner's output (or the runner wrote none).
RecordOutput ==
    /\ dresult = NoResult
    /\ job_remote_output = EmptyText
    /\ \E b \in Bindings : job_remote_output' = JsonText(b)
    /\ UNCHANGED <<stderr_file, stdout_file, job_remote_error, debug_log, updates,
                   last_new, dresult, lifeVars, classifyVars, bindingVars, apiVars>>

\* destage_job_output is called.
Destage ==
    /\ dresult' = destage_job_output(job_remote_output)
    /\ UNCHANGED <<updateVars, lifeVars, classifyVars, bindingVars, apiVars>>

DestageNext == RecordOutput \/ Destage

SpecDestage == Init /\ [][DestageNext]_vars

\* The locations of the File entries of a secondaryFiles list, nested ones
\* included.
RECURSIVE SecondaryLocations(_, _)
SecondaryLocations(secondary_files, k) ==
    IF k > Len(secondary_files) THEN {}
    ELSE (IF IsDict(secondary_files[k]) /\ secondary_files[k].class = "File"
          THEN {secondary_files[k].location}
                   \cup SecondaryLocations(secondary_files[k].secondaryFiles, 1)
          ELSE {})
         \cup SecondaryLocations(secondary_files, k + 1)

\* The locations of the File values of a value: its own and those of its
\* secondary files, or those of the File elements of a list.
LocationsOfValue(value) ==
    IF value.class = "File"
    THEN {value.location} \cup SecondaryLocations(value.secondaryFiles, 1)
    ELSE IF value.class = "list"
    THEN {value.items[n].location :
              n \in {m \in 1..Len(value.items) : value.items[m].class = "File"}}
    ELSE {}

\* Every output location a binding names.
OutputLocations(b) == UNION {LocationsOfValue(b[k].value) : k \in 1..Len(b)}

\* The locations of the File values at the top-level keys of a binding.
TopLevelLocations(b) ==
    {b[k].value.location : k \in {m \in 1..Len(b) : b[m].value.class = "File"}}

Destaged == dresult # NoResult /\ ~job_remote_output.empty

\* C8: if any output location in the job's remote output does not start
\* with file://<base>/jobs/<id>/work/, destage_job_output raises the
\* unexpected-location error and returns no file, also when the files
\* before the offending one had valid locations.
C8_UnexpectedLocationAborts ==
    (Destaged /\ \E l \in OutputLocations(job_remote_output.value) :
                     ~StartsWith(l, Prefix))
        => dresult = Raise("UnexpectedLocation")

\* What does hold of the location check: when the resolver returns the
\* files of the output, a File value at a top-level key with a location
\* outside the work directory makes destage_job_output raise the
\* unexpected-location error, and no file is returned.
TopLevelLocationAborts ==
    (Destaged /\ get_files_from_binding(job_remote_output.value).outcome = "ok"
              /\ \E l \in TopLevelLocations(job_remote_output.value) :
                     ~StartsWith(l, Prefix))
        => dresult = Raise("UnexpectedLocation")

\* C9: when destage_job_output returns for a non-empty remote output, the
\* returned files are the File values of the output in order, each with
\* the location that follows the file://<work>/ prefix of its original
\* location and with the work directory joined with that location as
\* source; for an empty remote output it returns the empty list.
C9_RelativeLocationAndSource ==
    /\ (Destaged /\ dresult.outcome = "ok") =>
           LET original == FilesOfBinding(job_remote_output.value, 1)
           IN /\ Len(dresult.files) = Len(original)
              /\ \A k \in 1..Len(dresult.files) :
                    /\ Prefix \o dresult.files[k].location = original[k].location
                    /\ ~StartsWith(dresult.files[k].location, <<"file://">>)
                    /\ dresult.files[k].source
                           = PathJoin(WorkDir, dresult.files[k].location)
    /\ (dresult # NoResult /\ job_remote_output.empty) => dresult = Return(<<>>)

\* Two files at expected locations were destaged, the second in a
\* subdirectory of the work directory.
C9_Witness ==
    /\ Destaged
    /\ dresult.outcome = "ok"
    /\ Len(dresult.files) = 2
    /\ dresult.files[1].location = <<"out.txt">>
    /\ dresult.files[2].source = WorkDir \o <<"/", "sub", "/", "b.txt">>

(***************************************************************************)
(* remote_job_files._create_input_filename, as called by                   *)
(* RemoteJobFiles._stage_input_file.  A character is a one-character       *)
(* string, a text the sequence of its characters.                          *)
(***************************************************************************)
\* The limit on the length of the sanitized path, and the number of
\* characters kept at either end of a longer one.
MaxNameLen == 39
KeepLen == 18

\* '___'
Separator == <<"_", "_", "_">>

\* The width str(count) is padded to.
PadWidth == 2

LowerCase ==
    {"a", "b", "c", "d", "e", "f", "g", "h", "i", "j", "k", "l", "m",
     "n", "o", "p", "q", "r", "s", "t", "u", "v", "w", "x", "y", "z"}
UpperCase ==
    {"A", "B", "C", "D", "E", "F", "G", "H", "I", "J", "K", "L", "M",
     "N", "O", "P", "Q", "R", "S", "T", "U", "V", "W", "X", "Y", "Z"}
DigitChars == <<"0", "1", "2", "3", "4", "5", "6", "7", "8", "9">>

\* The characters the class [a-zA-Z0-9_.-] matches.
AllowedChars ==
    LowerCase \cup UpperCase \cup {DigitChars[i] : i \in 1..10} \cup {"_", ".", "-"}

\* Python's str(n) for a natural number n.
RECURSIVE str(_)
str(n) ==
    IF n < 10 THEN <<DigitChars[n + 1]>>
    ELSE str(n \div 10) \o <<DigitChars[(n % 10) + 1]>>

\* Python's text.zfill(width), for a text without sign.
zfill(text, width) ==
    IF Len(text) >= width THEN text
    ELSE [i \in 1..(width - Len(text)) |-> "0"] \o text

\* A variant for comparison: every character outside the class becomes an
\* underscore of its own.
RECURSIVE regex_sub_PerChar(_, _)
regex_sub_PerChar(text, k) ==
    IF k > Len(text) THEN <<>>
    ELSE <<IF text[k] \in AllowedChars THEN text[k] ELSE "_">>
             \o regex_sub_PerChar(text, k + 1)

\* re.compile('[^a-zA-Z0-9_.-]+').sub('_', text) from character k on: the
\* longest run of characters outside the class that starts at k is
\* replaced by one underscore.
RECURSIVE regex_sub(_, _)
regex_sub(text, k) ==
    IF k > Len(text) THEN <<>>
    ELSE IF text[k] \in AllowedChars THEN <<text[k]>> \o regex_sub(text, k + 1)
    ELSE LET after == {n \in (k + 1)..Len(text) : text[n] \in AllowedChars}
             next == IF after = {} THEN Len(text) + 1
                     ELSE CHOOSE n \in after : \A m \in after : n <= m
         IN <<"_">> \o regex_sub(text, next)

\* A variant for comparison: the shortened name is returned without the
\* prefix.
create_input_filename_BarePrefix(unique_prefix, orig_path) ==
    LET result == regex_sub(orig_path, 1)
    IN IF Len(result) > MaxNameLen
       THEN SubSeq(result, 1, KeepLen) \o Separator
                \o SubSeq(result, Len(result) - KeepLen + 1, Len(result))
       ELSE unique_prefix \o <<"_">> \o result

\* _create_input_filename(unique_prefix, orig_path).  The four
\* result.replace(...) calls leave result as it is: their values are
\* discarded.
create_input_filename(unique_prefix, orig_path) ==
    LET result == regex_sub(orig_path, 1)
        short == IF Len(result) > MaxNameLen
                 THEN SubSeq(result, 1, KeepLen) \o Separator
                          \o SubSeq(result, Len(result) - KeepLen + 1, Len(result))
                 ELSE result
    IN unique_prefix \o <<"_">> \o short

\* The paths the calls are made with: up to MaxPathPieces pieces, each a
\* long name, a run of two delimiters, or a delimiter and a letter.
LongName == [i \in 1..(KeepLen + 2) |-> "a"]
PathPieces == {LongName, <<"/", "?">>, <<"=", "b">>}
RECURSIVE Concat(_)
Concat(pieces) ==
    IF pieces = <<>> THEN <<>> ELSE Head(pieces) \o Concat(Tail(pieces))
Paths == {Concat(ps) : ps \in UNION {[1..n -> PathPieces] : n \in 0..MaxPathPieces}}

\* Values the job-wide count of _stage_input_file takes (it starts at 1
\* and goes up by one per file staged).
Counts == {1, 2, 10, 99, 100}

\* staged_name = _create_input_filename(str(count).zfill(2), location)
StagedName(count, location) ==
    [made |-> TRUE, prefix |-> zfill(str(count), PadWidth), path |-> location,
     name |-> create_input_filename(zfill(str(count), PadWidth), location)]

\* _stage_input_file names one file.
NameFirst ==
    /\ ~call_a.made
    /\ \E count \in Counts, location \in Paths : call_a' = StagedName(count, location)
    /\ UNCHANGED <<call_b, outsideFilename>>

\* _stage_input_file names another file.
NameSecond ==
    /\ call_a.made
    /\ ~call_b.made
    /\ \E count \in Counts, location \in Paths : call_b' = StagedName(count, location)
    /\ UNCHANGED <<call_a, outsideFilename>>

FilenameNext == NameFirst \/ NameSecond

SpecFilename == Init /\ [][FilenameNext]_vars

\* The part of a name after its prefix and the underscore that follows.
TailOf(call) == SubSeq(call.name, Len(call.prefix) + 2, Len(call.name))

\* C14: two calls with distinct counter strings give distinct filenames,
\* whatever the two paths are.
C14_DistinctCountersDistinctNames ==
    (call_a.made /\ call_b.made /\ call_a.prefix # call_b.prefix)
        => call_a.name # call_b.name

\* Two different paths were named with different counters, and the two
\* names have the same shortened part after the prefix.
C14_Witness ==
    /\ call_a.made /\ call_b.made
    /\ call_a.prefix = <<"1", "0">>
    /\ call_b.prefix = <<"1", "0", "0">>
    /\ call_a.path # call_b.path
    /\ TailOf(call_a) = TailOf(call_b)
    /\ Len(TailOf(call_a)) = MaxNameLen

\* The sanitized path, said without scanning: the characters of the path
\* in the class, and one underscore for each character outside the class
\* that has no character outside the class right before it.
Sanitized(path) ==
    LET marked == [i \in 1..Len(path) |->
                      [char |-> IF path[i] \in AllowedChars THEN path[i] ELSE "_",
                       keep |-> \/ path[i] \in AllowedChars
                                \/ i = 1
                                \/ path[i - 1] \in AllowedChars]]
        Keep(r) == r.keep
        kept == SelectSeq(marked, Keep)
    IN [n \in 1..Len(kept) |-> kept[n].char]

\* C15: the name is the counter, an underscore and the sanitized path;
\* a sanitized path of more than 39 characters is replaced by its first
\* 18 characters, a separator of 3 characters and its last 18 characters.
\* The part after the prefix is at most 39 characters long and has only
\* characters of [A-Za-z0-9_.-].
C15_SanitizedAndShortened ==
    call_a.made =>
        LET tail == TailOf(call_a)
            clean == Sanitized(call_a.path)
        IN /\ call_a.name = call_a.prefix \o <<"_">> \o tail
           /\ Len(tail) <= 39
           /\ \A i \in 1..Len(tail) : tail[i] \in AllowedChars
           /\ Len(clean) <= 39 => tail = clean
           /\ Len(clean) > 39 =>
                 /\ Len(tail) = 18 + 3 + 18
                 /\ SubSeq(tail, 1, 18) = SubSeq(clean, 1, 18)
                 /\ SubSeq(tail, 22, 39) = SubSeq(clean, Len(clean) - 17, Len(clean))

\* A path with a run of two characters outside the class, whose sanitized
\* form is longer than 39 characters, was named.
C15_Witness ==
    /\ call_a.made
    /\ \E i \in 1..(Len(call_a.path) - 1) :
          call_a.path[i] \notin AllowedChars /\ call_a.path[i + 1] \notin AllowedChars
    /\ Len(Sanitized(call_a.path)) > 39
    /\ Len(TailOf(call_a)) = 39

(***************************************************************************)
(* RemoteApi.translate_workflow.  A workflow document is a record of       *)
(* whether it has a steps entry, of its steps in the order                 *)
(* workflow['steps'].items() gives them, and of its other content          *)
(* (cwlVersion); a step is a record of its run entry and its other         *)
(* content (out).  A run entry is a string (a sequence of pieces of text,  *)
(* "/" being a piece of its own), an inline tool, or absent.               *)
(***************************************************************************)
\* self._api_dir = self._basedir / 'api'
ApiDir == <<"/base", "/api">>

RunString(text) == [kind |-> "str", text |-> text]
InlineTool == [kind |-> "dict", text |-> <<>>]
AbsentRun == [kind |-> "absent", text |-> <<>>]

\* Python's text.split('/'): the parts of text between its slashes.
RECURSIVE split(_)
split(text) ==
    IF \A i \in 1..Len(text) : text[i] # "/" THEN <<text>>
    ELSE LET i == CHOOSE k \in 1..Len(text) :
                      text[k] = "/" /\ \A m \in 1..(k - 1) : text[m] # "/"
         IN <<SubSeq(text, 1, i - 1)>> \o split(SubSeq(text, i + 1, Len(text)))

\* Python's '/'.join(parts).
RECURSIVE join(_)
join(parts) ==
    IF parts = <<>> THEN <<>>
    ELSE IF Len(parts) = 1 THEN parts[1]
    ELSE parts[1] \o <<"/">> \o join(Tail(parts))

\* A variant for comparison: only the parts after the project follow the
\* steps directory.
TranslateRun_RestOnly(run) ==
    LET step_parts == split(run)
        project == step_parts[1]
        steps_dir == PathJoin(PathJoin(ApiDir, project), <<"steps">>)
    IN steps_dir \o <<"/">> \o join(Tail(step_parts))

\* The new value of step['run'] for a run string: str(steps_dir) + '/' +
\* '/'.join(step_parts).
TranslateRun(run) ==
    LET step_parts == split(run)
        project == step_parts[1]
        steps_dir == PathJoin(PathJoin(ApiDir, project), <<"steps">>)
    IN steps_dir \o <<"/">> \o join(step_parts)

\* The loop over workflow['steps'].items() from step k on; `steps` holds
\* the steps with those before k rewritten.  step['run'] of a step without
\* a run entry raises KeyError.
RECURSIVE StepsLoop(_, _, _)
StepsLoop(document, steps, k) ==
    IF k > Len(steps) THEN [outcome |-> "ok", document |-> [document EXCEPT !.steps = steps]]
    ELSE IF steps[k].run.kind = "absent"
    THEN [outcome |-> "KeyError", document |-> NoDocument]
    ELSE IF steps[k].run.kind # "str"
    THEN [outcome |-> "RuntimeError", document |-> NoDocument]
    ELSE StepsLoop(document,
                   [steps EXCEPT ![k].run = RunString(TranslateRun(steps[k].run.text))],
                   k + 1)

translate_workflow(document) ==
    IF ~document.has_steps
    THEN [outcome |-> "RuntimeError", document |-> NoDocument]
    ELSE StepsLoop(document, document.steps, 1)

\* The run entries of the documents given: references into two projects,
\* one in a subdirectory, a reference without a slash, an inline tool and
\* no entry at all.
RunEntries ==
    {RunString(<<"projA", "/", "wc.cwl">>),
     RunString(<<"projA", "/", "sub", "/", "sort.cwl">>),
     RunString(<<"projB", "/", "wc.cwl">>),
     RunString(<<"wc.cwl">>),
     InlineTool, AbsentRun}

StepsOf(n) == [1..n -> [run : RunEntries, out : {"output"}]]

Documents ==
    {[has_steps |-> FALSE, steps |-> <<>>, cwlVersion |-> v] : v \in {"v1.0", "v1.1"}}
    \cup {[has_steps |-> TRUE, steps |-> st, cwlVersion |-> v] :
             st \in UNION {StepsOf(n) : n \in 0..MaxSteps}, v \in {"v1.0", "v1.1"}}

\* A workflow is submitted.
GiveWorkflow ==
    /\ workflow = NoDocument
    /\ tresult = NoTranslation
    /\ workflow' \in Documents
    /\ UNCHANGED <<tresult, outsideTranslate>>

\* translate_workflow is called on it.
Translate ==
    /\ workflow # NoDocument
    /\ tresult' = translate_workflow(workflow)
    /\ UNCHANGED <<workflow, outsideTranslate>>

TranslateNext == GiveWorkflow \/ Translate

SpecTranslate == Init /\ [][TranslateNext]_vars

Translated == workflow # NoDocument /\ tresult # NoTranslation

\* C16: translate_workflow raises the validation error (RuntimeError) and
\* returns no document when the workflow has no steps entry or when the
\* run entry of a step is not a string: absent, or an inline tool.
C16_NoStepsOrBadRunIsValidationError ==
    (Translated /\ (\/ ~workflow.has_steps
                    \/ \E k \in 1..Len(workflow.steps) : workflow.steps[k].run.kind # "str"))
        => tresult = [outcome |-> "RuntimeError", document |-> NoDocument]

\* What does hold: the call returns no document in these cases, and the
\* error is the validation error when the workflow has no steps entry or
\* the first step whose run entry is not a string holds an inline tool.
NoStepsOrBadRunFails ==
    (Translated /\ (\/ ~workflow.has_steps
                    \/ \E k \in 1..Len(workflow.steps) : workflow.steps[k].run.kind # "str"))
        => /\ tresult.outcome \in {"RuntimeError", "KeyError"}
           /\ tresult.document = NoDocument
           /\ (\A k \in 1..Len(workflow.steps) : workflow.steps[k].run.kind # "absent")
                 => tresult.outcome = "RuntimeError"

\* The text of a run string after its first slash.
AfterFirstSlash(text) ==
    LET i == CHOOSE k \in 1..Len(text) : text[k] = "/" /\ \A m \in 1..(k - 1) : text[m] # "/"
    IN SubSeq(text, i + 1, Len(text))

HasSlash(text) == \E i \in 1..Len(text) : text[i] = "/"

\* C17 as stated: a run reference <project>/<rest> is rewritten to
\* <base>/api/<project>/steps/<rest>, and every other field of the
\* document is unchanged.
C17_RunBecomesStepsThenRest ==
    (Translated /\ tresult.outcome = "ok") =>
        /\ tresult.document.cwlVersion = workflow.cwlVersion
        /\ Len(tresult.document.steps) = Len(workflow.steps)
        /\ \A k \in 1..Len(workflow.steps) :
              /\ tresult.document.steps[k].out = workflow.steps[k].out
              /\ HasSlash(workflow.steps[k].run.text) =>
                    tresult.document.steps[k].run.text
                        = <<"/base", "/api", "/", workflow.steps[k].run.text[1], "/", "steps", "/">>
                              \o AfterFirstSlash(workflow.steps[k].run.text)

\* C17 as it holds: a run reference <project>/<rest> is rewritten to
\* <base>/api/<project>/steps/<project>/<rest>: the whole reference, its
\* first segment included, follows the project's steps directory.  Every
\* other field of the document is unchanged.
C17_RunBecomesStepsThenReference ==
    (Translated /\ tresult.outcome = "ok") =>
        /\ tresult.document.has_steps
        /\ tresult.document.cwlVersion = workflow.cwlVersion
        /\ Len(tresult.document.steps) = Len(workflow.steps)
        /\ \A k \in 1..Len(workflow.steps) :
              /\ tresult.document.steps[k].out = workflow.steps[k].out
              /\ tresult.document.steps[k].run.kind = "str"
              /\ HasSlash(workflow.steps[k].run.text) =>
                    tresult.document.steps[k].run.text
                        = <<"/base", "/api", "/", workflow.steps[k].run.text[1], "/", "steps", "/">>
                              \o workflow.steps[k].run.text

\* A workflow of two steps, the second with a reference into a
\* subdirectory of projA, was translated.
C17_Witness ==
    /\ Translated
    /\ tresult.outcome = "ok"
    /\ Len(workflow.steps) = 2
    /\ workflow.steps[2].run.text = <<"projA", "/", "sub", "/", "sort.cwl">>
    /\ tresult.document.steps[2].run.text
          = <<"/base", "/api", "/", "projA", "/", "steps", "/",
              "projA", "/", "sub", "/", "sort.cwl">>

(***************************************************************************)
(* The remote file system (cerulean paths).  A path is the sequence of     *)
(* its segments, each with its leading slash; a file staged under work/    *)
(* is the work directory, a slash and the characters of its name.          *)
(***************************************************************************)
\* config.get_basedir()
BaseDir == <<"/base">>

\* The path and every path above it.
Ancestors(path) == {SubSeq(path, 1, n) : n \in 1..Len(path)}

\* Path.mkdir(mode, parents, exists_ok) on the file system fs: the error
\* raised, if any, and the file system afterwards.
mkdir(fs, path, parents, exists_ok) ==
    IF path \in fs
    THEN [outcome |-> IF exists_ok THEN "ok" ELSE "FileExistsError", fs |-> fs]
    ELSE IF Len(path) > 1 /\ SubSeq(path, 1, Len(path) - 1) \notin fs /\ ~parents
    THEN [outcome |-> "FileNotFoundError", fs |-> fs]
    ELSE [outcome |-> "ok", fs |-> fs \cup (IF parents THEN Ancestors(path) ELSE {path})]

\* The base directory is made on the remote machine by its administrator.
ProvideBaseDir ==
    /\ BaseDir \notin remote_fs
    /\ remote_fs' = remote_fs \cup {BaseDir}
    /\ UNCHANGED <<managers, stageVars, installVars, outsideRemote>>

\* RemoteJobFiles.__init__: the base directory and its jobs directory are
\* made, with their parents.
ConstructJobFiles ==
    /\ "files" \notin managers
    /\ LET base == mkdir(remote_fs, BaseDir, TRUE, TRUE)
           jobs == mkdir(base.fs, Append(BaseDir, "/jobs"), TRUE, TRUE)
       IN IF base.outcome # "ok" THEN remote_fs' = base.fs /\ managers' = managers
          ELSE IF jobs.outcome # "ok" THEN remote_fs' = jobs.fs /\ managers' = managers
          ELSE remote_fs' = jobs.fs /\ managers' = managers \cup {"files"}
    /\ UNCHANGED <<stageVars, installVars, outsideRemote>>

(***************************************************************************)
(* RemoteJobFiles.stage_job and _stage_input_file, for the job whose       *)
(* directory is <base>/jobs/id.                                            *)
(***************************************************************************)
\* The job of the registry whose files these are.
JobAtHand == 1

\* self._basedir / 'jobs' / job_id
JobDir == SubSeq(WorkDir, 1, Len(WorkDir) - 1)

\* A file name as a path segment.
Slashed(rel_path) ==
    CASE rel_path = "work" -> "/work"
      [] rel_path = "name.txt" -> "/name.txt"
      [] rel_path = "workflow.cwl" -> "/workflow.cwl"
      [] rel_path = "input.json" -> "/input.json"
      [] rel_path = "stdout.txt" -> "/stdout.txt"
      [] rel_path = "stderr.txt" -> "/stderr.txt"
      [] rel_path = "sysout.txt" -> "/sysout.txt"
      [] rel_path = "syserr.txt" -> "/syserr.txt"

\* _abs_path(job_id, rel_path) for the names stage_job uses.
abs_path(rel_path) == IF rel_path = "" THEN JobDir ELSE Append(JobDir, Slashed(rel_path))

\* An input file to stage: cerise.back_end.file.File, with the index of
\* its array slot (<<i>>, or <<>> for none) and its secondary files.
StageFile(name, index, location, secondary_files) ==
    [name |-> name, index |-> index, location |-> location,
     secondary_files |-> secondary_files]

\* Where a stage_job call meets a failing remote operation, if anywhere.
Faults == {"none", "mkdir", "name.txt", "workflow.cwl", "copy", "input.json"}

RECURSIVE StageInputFile(_, _, _, _), StageSecondaries(_, _, _, _, _, _)

\* _stage_input_file(count, job_id, input_file, input_desc): the error
\* raised if any, the count returned, the input description with its
\* location (and those of its secondaryFiles) rewritten, and the paths
\* copied to.  The file is copied before the location is assigned, which
\* an input_desc that is no dict does not take.
StageInputFile(count, input_file, input_desc, fault) ==
    LET staged_name == create_input_filename(zfill(str(count), PadWidth), input_file.location)
        target_path == WorkDir \o <<"/">> \o staged_name
    IN IF fault = "copy"
       THEN [outcome |-> "IOError", count |-> count + 1, desc |-> input_desc, copied |-> {}]
       ELSE IF ~IsDict(input_desc)
       THEN [outcome |-> "TypeError", count |-> count + 1, desc |-> input_desc,
             copied |-> {target_path}]
       ELSE StageSecondaries(count + 1, input_file.secondary_files, 1,
                             [input_desc EXCEPT !.location = target_path],
                             fault, {target_path})

\* The loop over enumerate(input_file.secondary_files) from file k on.
StageSecondaries(count, secondary_files, k, input_desc, fault, copied) ==
    IF k > Len(secondary_files)
    THEN [outcome |-> "ok", count |-> count, desc |-> input_desc, copied |-> copied]
    ELSE IF k > Len(input_desc.secondaryFiles)
    THEN [outcome |-> "IndexError", count |-> count, desc |-> input_desc, copied |-> copied]
    ELSE LET sub == StageInputFile(count, secondary_files[k],
                                   input_desc.secondaryFiles[k], fault)
         IN IF sub.outcome # "ok"
            THEN [outcome |-> sub.outcome, count |-> sub.count, desc |-> input_desc,
                  copied |-> copied \cup sub.copied]
            ELSE StageSecondaries(sub.count, secondary_files, k + 1,
                                  [input_desc EXCEPT !.secondaryFiles[k] = sub.desc],
                                  fault, copied \cup sub.copied)

\* The position of the key `name` in the inputs, 0 when it is not there.
KeyOf(inputs, name) ==
    IF \E k \in 1..Len(inputs) : inputs[k].name = name
    THEN CHOOSE k \in 1..Len(inputs) : inputs[k].name = name
    ELSE 0

\* A variant for comparison: the index of the input file is not used,
\* the location is written at the first slot of the list.
RECURSIVE StageInputs_FirstSlot(_, _, _, _, _, _)
StageInputs_FirstSlot(inputs, input_files, k, count, fault, copied) ==
    IF k > Len(input_files)
    THEN [outcome |-> "ok", count |-> count, inputs |-> inputs, copied |-> copied]
    ELSE LET input_file == input_files[k]
             key == KeyOf(inputs, input_file.name)
             slot == IF input_file.index = <<>> THEN 0 ELSE 1
         IN IF key = 0
            THEN [outcome |-> "KeyError", count |-> count, inputs |-> inputs, copied |-> copied]
            ELSE IF slot > Len(inputs[key].value.items)
            THEN [outcome |-> "IndexError", count |-> count, inputs |-> inputs, copied |-> copied]
            ELSE LET input_desc == IF slot = 0 THEN inputs[key].value
                                   ELSE inputs[key].value.items[slot]
                     staged == StageInputFile(count, input_file, input_desc, fault)
                     rewritten == IF slot = 0
                                  THEN [inputs EXCEPT ![key].value = staged.desc]
                                  ELSE [inputs EXCEPT ![key].value.items[slot] = staged.desc]
                 IN IF staged.outcome # "ok"
                    THEN [outcome |-> staged.outcome, count |-> staged.count,
                          inputs |-> inputs, copied |-> copied \cup staged.copied]
                    ELSE StageInputs_FirstSlot(rewritten, input_files, k + 1, staged.count,
                                               fault, copied \cup staged.copied)

\* A variant for comparison: the count starts again at 1 for every
\* top-level input file.
RECURSIVE StageInputs_FreshCount(_, _, _, _, _, _)
StageInputs_FreshCount(inputs, input_files, k, count, fault, copied) ==
    IF k > Len(input_files)
    THEN [outcome |-> "ok", count |-> count, inputs |-> inputs, copied |-> copied]
    ELSE LET input_file == input_files[k]
             key == KeyOf(inputs, input_file.name)
             slot == IF input_file.index = <<>> THEN 0 ELSE input_file.index[1] + 1
         IN IF key = 0
            THEN [outcome |-> "KeyError", count |-> count, inputs |-> inputs, copied |-> copied]
            ELSE IF slot > Len(inputs[key].value.items)
            THEN [outcome |-> "IndexError", count |-> count, inputs |-> inputs, copied |-> copied]
            ELSE LET input_desc == IF slot = 0 THEN inputs[key].value
                                   ELSE inputs[key].value.items[slot]
                     staged == StageInputFile(1, input_file, input_desc, fault)
                     rewritten == IF slot = 0
                                  THEN [inputs EXCEPT ![key].value = staged.desc]
                                  ELSE [inputs EXCEPT ![key].value.items[slot] = staged.desc]
                 IN IF staged.outcome # "ok"
                    THEN [outcome |-> staged.outcome, count |-> staged.count,
                          inputs |-> inputs, copied |-> copied \cup staged.copied]
                    ELSE StageInputs_FreshCount(rewritten, input_files, k + 1, staged.count,
                                                fault, copied \cup staged.copied)

\* The loop of stage_job over input_files from file k on.
RECURSIVE StageInputs(_, _, _, _, _, _)
StageInputs(inputs, input_files, k, count, fault, copied) ==
    IF k > Len(input_files)
    THEN [outcome |-> "ok", count |-> count, inputs |-> inputs, copied |-> copied]
    ELSE LET input_file == input_files[k]
             key == KeyOf(inputs, input_file.name)
             slot == IF input_file.index = <<>> THEN 0 ELSE input_file.index[1] + 1
         IN IF key = 0
            THEN [outcome |-> "KeyError", count |-> count, inputs |-> inputs, copied |-> copied]
            ELSE IF slot > Len(inputs[key].value.items)
            THEN [outcome |-> "IndexError", count |-> count, inputs |-> inputs, copied |-> copied]
            ELSE LET input_desc == IF slot = 0 THEN inputs[key].value
                                   ELSE inputs[key].value.items[slot]
                     staged == StageInputFile(count, input_file, input_desc, fault)
                     rewritten == IF slot = 0
                                  THEN [inputs EXCEPT ![key].value = staged.desc]
                                  ELSE [inputs EXCEPT ![key].value.items[slot] = staged.desc]
                 IN IF staged.outcome # "ok"
                    THEN [outcome |-> staged.outcome, count |-> staged.count,
                          inputs |-> inputs, copied |-> copied \cup staged.copied]
                    ELSE StageInputs(rewritten, input_files, k + 1, staged.count,
                                     fault, copied \cup staged.copied)

\* The jobs staged: the job's local_input and the input files resolved
\* from it.
LocalA == <<"i", "n", "/", "a", ".", "t", "x", "t">>
LocalIdx == <<"i", "n", "/", "a", ".", "i", "d", "x">>
LocalB == <<"d", "a", "t", "a", "?", "b">>
StageCases ==
    {[inputs |-> <<>>, input_files |-> <<>>],
     [inputs |-> <<[name |-> "a", value |-> File(LocalA, <<>>)]>>,
      input_files |-> <<StageFile("a", <<>>, LocalA, <<>>)>>],
     [inputs |-> <<[name |-> "a", value |-> File(LocalA, <<File(LocalIdx, <<>>)>>)],
                   [name |-> "b", value |-> List(<<Scalar, File(LocalB, <<>>)>>)]>>,
      input_files |-> <<StageFile("a", <<>>, LocalA, <<StageFile(None, <<>>, LocalIdx, <<>>)>>),
                        StageFile("b", <<1>>, LocalB, <<>>)>>],
     [inputs |-> <<[name |-> "b", value |-> List(<<File(LocalB, <<>>), File(LocalB, <<>>)>>)]>>,
      input_files |-> <<StageFile("b", <<0>>, LocalB, <<>>),
                        StageFile("b", <<1>>, LocalB, <<>>)>>],
     [inputs |-> <<[name |-> "a", value |-> File(LocalA, <<Scalar, File(LocalIdx, <<>>)>>)]>>,
      input_files |-> <<StageFile("a", <<>>, LocalA, <<StageFile(None, <<>>, LocalIdx, <<>>)>>)>>]}

\* A variant for comparison: the two system stream paths are crossed.
StagedPaths_Crossed(reached) ==
    [f \in PathFields |->
        CASE f = "remote_workdir_path" ->
                IF reached >= 1 THEN abs_path("work") ELSE job_paths[f]
          [] f = "remote_workflow_path" ->
                IF reached >= 2 THEN abs_path("workflow.cwl") ELSE job_paths[f]
          [] f = "remote_input_path" ->
                IF reached >= 3 THEN abs_path("input.json") ELSE job_paths[f]
          [] f = "remote_stdout_path" ->
                IF reached >= 3 THEN abs_path("stdout.txt") ELSE job_paths[f]
          [] f = "remote_stderr_path" ->
                IF reached >= 3 THEN abs_path("stderr.txt") ELSE job_paths[f]
          [] f = "remote_system_out_path" ->
                IF reached >= 3 THEN abs_path("syserr.txt") ELSE job_paths[f]
          [] f = "remote_system_err_path" ->
                IF reached >= 3 THEN abs_path("sysout.txt") ELSE job_paths[f]]

\* The job's path fields after a stage_job call that got past `reached`
\* of its three groups of assignments: the work directory (line 74), the
\* workflow (81-82), the input description and the four output streams
\* (98-106).
StagedPaths(reached) ==
    [f \in PathFields |->
        CASE f = "remote_workdir_path" ->
                IF reached >= 1 THEN abs_path("work") ELSE job_paths[f]
          [] f = "remote_workflow_path" ->
                IF reached >= 2 THEN abs_path("workflow.cwl") ELSE job_paths[f]
          [] f = "remote_input_path" ->
                IF reached >= 3 THEN abs_path("input.json") ELSE job_paths[f]
          [] f = "remote_stdout_path" ->
                IF reached >= 3 THEN abs_path("stdout.txt") ELSE job_paths[f]
          [] f = "remote_stderr_path" ->
                IF reached >= 3 THEN abs_path("stderr.txt") ELSE job_paths[f]
          [] f = "remote_system_out_path" ->
                IF reached >= 3 THEN abs_path("sysout.txt") ELSE job_paths[f]
          [] f = "remote_system_err_path" ->
                IF reached >= 3 THEN abs_path("syserr.txt") ELSE job_paths[f]]

\* A variant for comparison: a call that fails marks the job as failed.
StageLeaves_MarksFailed ==
    /\ registry' = [registry EXCEPT ![JobAtHand].state =
                       IF stage_result'.outcome = "ok" THEN @ ELSE "SYSTEM_ERROR"]
    /\ UNCHANGED <<managers, installVars, lock, req, classifyVars, updateVars, bindingVars,
                   destageVars, filenameVars, translateVars, hintVars, stepVars>>

\* What stage_job leaves alone: everything but the remote files, the
\* job's path fields and the input description it writes.
StageLeaves == UNCHANGED <<managers, installVars, outsideRemote>>

\* The body of stage_job for the job whose local_input is case.inputs,
\* called with case.input_files, when the remote operation `fault` fails
\* (if the call gets to it).  A failing remote operation raises out of
\* the call; the fields written before it stay written.
StageJobWith(case, fault) ==
    LET made == mkdir(mkdir(remote_fs, abs_path(""), TRUE, TRUE).fs,
                      abs_path("work"), TRUE, TRUE).fs
        named == made \cup {abs_path("name.txt")}
        flowed == named \cup {abs_path("workflow.cwl")}
        staged == StageInputs(case.inputs, case.input_files, 1, 1, fault, {})
        copied == flowed \cup staged.copied
    IN IF ~registry[JobAtHand].exists
       THEN /\ stage_result' = [outcome |-> "JobNotFound", count |-> 0]
            /\ UNCHANGED <<remote_fs, job_paths, staged_input>>
       ELSE IF fault = "mkdir"
       THEN /\ stage_result' = [outcome |-> "IOError", count |-> 0]
            /\ UNCHANGED <<remote_fs, job_paths, staged_input>>
       ELSE IF fault = "name.txt"
       THEN /\ stage_result' = [outcome |-> "IOError", count |-> 0]
            /\ remote_fs' = made
            /\ job_paths' = StagedPaths(1)
            /\ UNCHANGED staged_input
       ELSE IF fault = "workflow.cwl"
       THEN /\ stage_result' = [outcome |-> "IOError", count |-> 0]
            /\ remote_fs' = named
            /\ job_paths' = StagedPaths(1)
            /\ UNCHANGED staged_input
       ELSE IF staged.outcome # "ok"
       THEN /\ stage_result' = [outcome |-> staged.outcome, count |-> staged.count]
            /\ remote_fs' = copied
            /\ job_paths' = StagedPaths(2)
            /\ UNCHANGED staged_input
       ELSE IF fault = "input.json"
       THEN /\ stage_result' = [outcome |-> "IOError", count |-> staged.count]
            /\ remote_fs' = copied
            /\ job_paths' = StagedPaths(2)
            /\ UNCHANGED staged_input
       ELSE /\ stage_result' = [outcome |-> "ok", count |-> staged.count]
            /\ remote_fs' = copied \cup {abs_path("input.json")}
            /\ job_paths' = StagedPaths(3)
            /\ staged_input' = [written |-> TRUE, inputs |-> staged.inputs]

\* stage_job(job_id, input_files, workflow_content), in one scope of the
\* job store.
StageJob ==
    /\ "files" \in managers
    /\ lock.owner = "none"
    /\ \E case \in StageCases, fault \in Faults : StageJobWith(case, fault)
    /\ StageLeaves

\* The job at hand is created, staged (again and again), polled, destaged,
\* cancelled and marked for deletion.
StageNext ==
    \/ ProvideBaseDir
    \/ ConstructJobFiles
    \/ ~registry[JobAtHand].exists /\ PostJob
    \/ StageJob
    \/ updates < MaxUpdates /\ UpdateJob
    \/ Destage
    \/ CancelBegin(JobAtHand)
    \/ CancelStep
    \/ CancelEnd
    \/ DeleteBegin(JobAtHand)
    \/ DeleteCancelled
    \/ DeleteMark

SpecStage == Init /\ [][StageNext]_vars

\* The seven paths of the layout <base>/jobs/<id>/...
ExpectedPaths ==
    [remote_workdir_path |-> <<"/base", "/jobs", "/id", "/work">>,
     remote_workflow_path |-> <<"/base", "/jobs", "/id", "/workflow.cwl">>,
     remote_input_path |-> <<"/base", "/jobs", "/id", "/input.json">>,
     remote_stdout_path |-> <<"/base", "/jobs", "/id", "/stdout.txt">>,
     remote_stderr_path |-> <<"/base", "/jobs", "/id", "/stderr.txt">>,
     remote_system_out_path |-> <<"/base", "/jobs", "/id", "/sysout.txt">>,
     remote_system_err_path |-> <<"/base", "/jobs", "/id", "/syserr.txt">>]

\* C18: the seven path fields are empty until stage_job is first called;
\* when a stage_job call completes they are <base>/jobs/<id>/ followed by
\* work, workflow.cwl, input.json, stdout.txt, stderr.txt, sysout.txt and
\* syserr.txt; and no step of any operation (update_job,
\* destage_job_output, a cancel or delete request, another stage_job call)
\* changes a field that has been set.
C18_PathsSetByStagingAndKept ==
    /\ [](stage_result = NoStage => job_paths = EmptyPaths)
    /\ [][(StageJob /\ stage_result'.outcome = "ok")
             => \A f \in PathFields : job_paths'[f] = ExpectedPaths[f]]_vars
    /\ [][\A f \in PathFields : job_paths[f] # <<>> => job_paths'[f] = job_paths[f]]_vars

\* The job was staged, and since then polled, destaged, cancelled and
\* marked for deletion, and a later stage_job call on it failed.
C18_Witness ==
    /\ job_paths = ExpectedPaths
    /\ staged_input.written
    /\ stage_result.outcome = "IOError"
    /\ updates >= 1
    /\ dresult # NoResult
    /\ registry[JobAtHand].state = "CANCELLED"
    /\ registry[JobAtHand].please_delete

(***************************************************************************)
(* RemoteApi.__init__ and RemoteApi.install.  The local api directory is   *)
(* the sequence of its entries in the order iterdir() gives them; an       *)
(* entry is a project directory or a plain file.  A file name is its stem  *)
(* and its extension, two segments of the path.                            *)
(***************************************************************************)
\* The remote api directory as a path of the file system.
RemoteApiDir == Append(BaseDir, "/api")

\* RemoteApi.__init__: the api directory is made, with its parents.
ConstructApi ==
    /\ "api" \notin managers
    /\ LET made == mkdir(remote_fs, RemoteApiDir, TRUE, TRUE)
       IN /\ remote_fs' = made.fs
          /\ managers' = IF made.outcome = "ok" THEN managers \cup {"api"} ELSE managers
    /\ UNCHANGED <<stageVars, installVars, outsideRemote>>

\* The files under a project's local steps/ directory: two steps, one of
\* them in a subdirectory, and a file that is not a step.
StepFiles == {<<"/wc", ".cwl">>, <<"/sub", "/sort", ".cwl">>, <<"/notes", ".txt">>}

\* The files under a project's local files/ directory, when it has one.
ApiFiles == {<<"/test_file", ".txt">>}

\* filename.endswith('.cwl')
IsCwl(path) == path[Len(path)] = ".cwl"

\* A project directory: its name, whether it has a files/ subtree, the
\* files under its steps/ subtree, whether it has an install.sh, and the
\* exit code an install.sh in its remote directory gives when run.
ProjectEntries ==
    [is_dir : {TRUE}, name : {"/projA", "/projB"}, has_files : BOOLEAN,
     steps : {StepFiles}, has_install : BOOLEAN, exit_code : {0, 1}]

\* A plain file in the api directory.
FileEntry ==
    [is_dir |-> FALSE, name |-> "/README", has_files |-> FALSE, steps |-> {},
     has_install |-> FALSE, exit_code |-> 0]

\* The names of the entries in the order iterdir() gives them.
EntryNames == <<"/README", "/projA", "/projB">>

\* The listings of the entries named from place i on, each name present
\* or not.
RECURSIVE ListingsFrom(_)
ListingsFrom(i) ==
    IF i > Len(EntryNames) THEN {<<>>}
    ELSE LET named == {e \in ProjectEntries \cup {FileEntry} : e.name = EntryNames[i]}
         IN {head \o rest : head \in {<<>>} \cup {<<e>> : e \in named},
                             rest \in ListingsFrom(i + 1)}

\* The local api directories installed from: entries of different names,
\* listed in the order of iterdir().
LocalApiDirs == {tree \in ListingsFrom(1) : Len(tree) <= MaxProjects}

\* _make_remote_project(name)
make_remote_project(fs, name) == mkdir(fs, Append(RemoteApiDir, name), FALSE, TRUE)

\* _stage_api_files: the files/ subtree is copied when there is one.
stage_api_files(fs, entry, remote_project_dir) ==
    IF ~entry.has_files THEN fs
    ELSE fs \cup {Append(remote_project_dir, "/files")}
            \cup {Append(remote_project_dir, "/files") \o f : f \in ApiFiles}

\* _stage_api_steps: every .cwl file under steps/ is written at the same
\* relative path under the remote steps directory, whose directories are
\* made as needed.
stage_api_steps(fs, entry, remote_project_dir) ==
    LET remote_steps_dir == Append(remote_project_dir, "/steps")
        cwl == {f \in entry.steps : IsCwl(f)}
    IN fs \cup UNION {Ancestors(remote_steps_dir \o SubSeq(f, 1, Len(f) - 2))
                         \cup {remote_steps_dir \o f} : f \in cwl}

\* _stage_install_script: install.sh is copied when there is one.
stage_install_script(fs, entry, remote_project_dir) ==
    IF ~entry.has_install THEN fs
    ELSE fs \cup {remote_project_dir \o <<"/install", ".sh">>}

\* The paths of the file system in or under the remote directory of the
\* project called name.
ProjectPaths(fs, name) ==
    {path \in fs : Len(path) > Len(RemoteApiDir)
                      /\ SubSeq(path, 1, Len(RemoteApiDir) + 1) = Append(RemoteApiDir, name)}

\* The job _run_install_script submits for the project called name: its
\* command, and what the remote project directory holds when it is
\* submitted.
JobDescription(fs, name) == [command |-> name, found |-> ProjectPaths(fs, name)]

\* A variant for comparison: the script is staged and run before the
\* files and the steps of the project are staged.
RECURSIVE InstallLoop_ScriptFirst(_, _, _, _)
InstallLoop_ScriptFirst(tree, k, fs, runs) ==
    IF k > Len(tree) THEN [outcome |-> "ok", at |-> 0, fs |-> fs, runs |-> runs]
    ELSE IF ~tree[k].is_dir THEN InstallLoop_ScriptFirst(tree, k + 1, fs, runs)
    ELSE LET made == make_remote_project(fs, tree[k].name)
             remote_project_dir == Append(RemoteApiDir, tree[k].name)
             scripted == stage_install_script(made.fs, tree[k], remote_project_dir)
             staged == stage_api_steps(
                           stage_api_files(scripted, tree[k], remote_project_dir),
                           tree[k], remote_project_dir)
         IN IF made.outcome # "ok"
            THEN [outcome |-> made.outcome, at |-> k, fs |-> made.fs, runs |-> runs]
            ELSE IF remote_project_dir \o <<"/install", ".sh">> \in scripted
            THEN IF tree[k].exit_code # 0
                 THEN [outcome |-> "RuntimeError", at |-> k, fs |-> scripted,
                       runs |-> Append(runs, JobDescription(scripted, tree[k].name))]
                 ELSE InstallLoop_ScriptFirst(tree, k + 1, staged,
                          Append(runs, JobDescription(scripted, tree[k].name)))
            ELSE InstallLoop_ScriptFirst(tree, k + 1, staged, runs)

\* A variant for comparison: a failing script is passed over and the
\* loop goes on.
RECURSIVE InstallLoop_GoOn(_, _, _, _)
InstallLoop_GoOn(tree, k, fs, runs) ==
    IF k > Len(tree) THEN [outcome |-> "ok", at |-> 0, fs |-> fs, runs |-> runs]
    ELSE IF ~tree[k].is_dir THEN InstallLoop_GoOn(tree, k + 1, fs, runs)
    ELSE LET made == make_remote_project(fs, tree[k].name)
             remote_project_dir == Append(RemoteApiDir, tree[k].name)
             staged == stage_install_script(
                           stage_api_steps(
                               stage_api_files(made.fs, tree[k], remote_project_dir),
                               tree[k], remote_project_dir),
                           tree[k], remote_project_dir)
         IN IF made.outcome # "ok"
            THEN [outcome |-> made.outcome, at |-> k, fs |-> made.fs, runs |-> runs]
            ELSE IF remote_project_dir \o <<"/install", ".sh">> \in staged
            THEN InstallLoop_GoOn(tree, k + 1, staged, Append(runs, JobDescription(staged, tree[k].name)))
            ELSE InstallLoop_GoOn(tree, k + 1, staged, runs)

\* The loop of install over the entries from entry k on: the error raised
\* if any and the entry it was raised at, the remote file system and the
\* scripts submitted.  _run_install_script submits the script when the
\* remote project directory has an install.sh, and raises when its exit
\* code is not 0.
RECURSIVE InstallLoop(_, _, _, _)
InstallLoop(tree, k, fs, runs) ==
    IF k > Len(tree) THEN [outcome |-> "ok", at |-> 0, fs |-> fs, runs |-> runs]
    ELSE IF ~tree[k].is_dir THEN InstallLoop(tree, k + 1, fs, runs)
    ELSE LET made == make_remote_project(fs, tree[k].name)
             remote_project_dir == Append(RemoteApiDir, tree[k].name)
             staged == stage_install_script(
                           stage_api_steps(
                               stage_api_files(made.fs, tree[k], remote_project_dir),
                               tree[k], remote_project_dir),
                           tree[k], remote_project_dir)
         IN IF made.outcome # "ok"
            THEN [outcome |-> made.outcome, at |-> k, fs |-> made.fs, runs |-> runs]
            ELSE IF remote_project_dir \o <<"/install", ".sh">> \in staged
            THEN IF tree[k].exit_code # 0
                 THEN [outcome |-> "RuntimeError", at |-> k, fs |-> staged,
                       runs |-> Append(runs, JobDescription(staged, tree[k].name))]
                 ELSE InstallLoop(tree, k + 1, staged, Append(runs, JobDescription(staged, tree[k].name)))
            ELSE InstallLoop(tree, k + 1, staged, runs)

\* install(local_api_dir)
Install ==
    /\ "api" \in managers
    /\ \E tree \in LocalApiDirs :
          LET done == InstallLoop(tree, 1, remote_fs, <<>>)
          IN /\ local_api' = tree
             /\ remote_fs' = done.fs
             /\ sched_runs' = done.runs
             /\ install_result' = [outcome |-> done.outcome, at |-> done.at]
    /\ UNCHANGED <<managers, stageVars, outsideRemote>>

InstallNext == ProvideBaseDir \/ ConstructApi \/ ConstructJobFiles \/ Install

SpecInstall == Init /\ [][InstallNext]_vars

\* C19: constructing RemoteApi or RemoteJobFiles, or running install,
\* while the base directory does not exist fails and leaves the base
\* directory not existing.
C19_BaseDirNeverCreated ==
    [][((ConstructApi \/ ConstructJobFiles \/ Install) /\ BaseDir \notin remote_fs)
          => (BaseDir \notin remote_fs' /\ managers' = managers)]_vars

\* C20: when a project's install script exits with a code other than 0,
\* install raises the fatal error at that project, and for no project
\* iterated after it is anything created, copied or written in its remote
\* directory, nor a script run.
C20_FailingScriptStopsInstall ==
    [][Install =>
        \A k \in 1..Len(local_api') :
            (/\ local_api'[k].is_dir
             /\ local_api'[k].exit_code # 0
             /\ sched_runs' # <<>>
             /\ sched_runs'[Len(sched_runs')].command = local_api'[k].name)
            => /\ install_result' = [outcome |-> "RuntimeError", at |-> k]
               /\ \A n \in (k + 1)..Len(local_api') :
                     /\ ProjectPaths(remote_fs', local_api'[n].name)
                            = ProjectPaths(remote_fs, local_api'[n].name)
                     /\ \A i \in 1..Len(sched_runs') :
                            sched_runs'[i].command # local_api'[n].name]_vars

\* The script of the first of two projects failed; the second project has
\* files, steps and a script of its own, and nothing of it is on the
\* remote file system.
C20_Witness ==
    /\ install_result = [outcome |-> "RuntimeError", at |-> 1]
    /\ Len(local_api) = 2
    /\ local_api[2].is_dir /\ local_api[2].has_files /\ local_api[2].has_install
    /\ local_api[2].steps # {}
    /\ Len(sched_runs) = 1 /\ sched_runs[1].command = local_api[1].name
    /\ ProjectPaths(remote_fs, local_api[1].name) # {}
    /\ ProjectPaths(remote_fs, local_api[2].name) = {}

\* The remote paths of the .cwl step documents of a project directory:
\* the relative path under steps/ kept.
RemoteSteps(entry) ==
    {Append(RemoteApiDir, entry.name) \o <<"/steps">> \o f : f \in {g \in entry.steps : IsCwl(g)}}

\* The remote paths of the files/ subtree of a project directory.
RemoteFiles(entry) ==
    IF entry.has_files
    THEN {Append(RemoteApiDir, entry.name) \o <<"/files">> \o f : f \in ApiFiles}
    ELSE {}

\* C21: when install returns without error, every .cwl step document of
\* every project directory is on the remote file system at the same
\* relative path under the project's steps directory, and the install
\* script of every project that has one was submitted with the project's
\* files and steps already staged, and exited with code 0.
C21_InstalledWhenNoError ==
    [][(Install /\ install_result'.outcome = "ok") =>
        \A k \in 1..Len(local_api') :
            local_api'[k].is_dir =>
                /\ RemoteSteps(local_api'[k]) \subseteq remote_fs'
                /\ local_api'[k].has_install =>
                      /\ local_api'[k].exit_code = 0
                      /\ \E i \in 1..Len(sched_runs') :
                            /\ sched_runs'[i].command = local_api'[k].name
                            /\ RemoteSteps(local_api'[k]) \cup RemoteFiles(local_api'[k])
                                   \subseteq sched_runs'[i].found]_vars

\* install returned without error for two projects with files, steps and
\* an install script each: both scripts were run, in the order of the
\* listing.
C21_Witness ==
    /\ install_result.outcome = "ok"
    /\ Len(local_api) = 2
    /\ \A k \in 1..2 : /\ local_api[k].is_dir /\ local_api[k].has_files
                        /\ local_api[k].has_install /\ local_api[k].steps # {}
    /\ Len(sched_runs) = 2
    /\ \A k \in 1..2 : sched_runs[k].command = local_api[k].name
    /\ \A k \in 1..2 : RemoteSteps(local_api[k]) \subseteq remote_fs

\* C22: for a project directory without a local install.sh, install
\* submits no job for the project and raises no error at it, whatever the
\* remote project directory holds already.
C22_NoLocalScriptNoJob ==
    [][Install =>
        \A k \in 1..Len(local_api') :
            (local_api'[k].is_dir /\ ~local_api'[k].has_install) =>
                /\ \A i \in 1..Len(sched_runs') : sched_runs'[i].command # local_api'[k].name
                /\ install_result'.at # k]_vars

\* A missing local files/ subtree is passed over: install raises no error
\* at a project for it, and a project without a local install.sh has a job
\* submitted only when the remote project directory held an install.sh
\* before the call.
NoLocalScriptRunsLeftoverOnly ==
    [][Install =>
        \A k \in 1..Len(local_api') :
            (local_api'[k].is_dir /\ ~local_api'[k].has_install) =>
                /\ (\E i \in 1..Len(sched_runs') : sched_runs'[i].command = local_api'[k].name)
                      => Append(RemoteApiDir, local_api'[k].name) \o <<"/install", ".sh">>
                            \in remote_fs
                /\ install_result'.at = k =>
                      Append(RemoteApiDir, local_api'[k].name) \o <<"/install", ".sh">>
                            \in remote_fs]_vars

(***************************************************************************)
(* cwl.get_required_num_cores.  Of the parsed workflow the model keeps     *)
(* what the function reads: whether hints is absent, null, a mapping keyed *)
(* by class or a list of requirement objects; whether it holds a           *)
(* ResourceRequirement, and that requirement's coresMin and coresMax.      *)
(***************************************************************************)
YamlFields == {YamlAbsent, YamlNull} \cup {YamlInt(n) : n \in 0..MaxCores}

\* The workflows given: yaml.safe_load(workflow_content).
HintDocuments ==
    {[hints |-> h, ResourceRequirement |-> "absent",
      coresMin |-> YamlAbsent, coresMax |-> YamlAbsent] : h \in {"absent", "null", "map", "list"}}
    \cup {[hints |-> "map", ResourceRequirement |-> "null",
           coresMin |-> YamlAbsent, coresMax |-> YamlAbsent]}
    \cup [hints : {"map", "list"}, ResourceRequirement : {"map"},
          coresMin : YamlFields, coresMax : YamlFields]

\* dict.get(key): None when the key is absent, else its value.
get(field) == IF field.kind = "absent" THEN YamlNull ELSE field

\* x is None
IsNone(field) == field.kind = "null"

\* get_required_num_cores(workflow_content): the value returned, or the
\* error raised.  A list has no get method.
get_required_num_cores(doc) ==
    IF doc.hints \in {"absent", "null"} THEN [outcome |-> "ok", value |-> 0]
    ELSE IF doc.hints = "list" THEN [outcome |-> "AttributeError", value |-> 0]
    ELSE IF doc.ResourceRequirement \in {"absent", "null"} THEN [outcome |-> "ok", value |-> 0]
    ELSE LET cores_min == get(doc.coresMin)
             cores_max == get(doc.coresMax)
         IN IF ~IsNone(cores_min) THEN [outcome |-> "ok", value |-> cores_min.n]
            ELSE IF ~IsNone(cores_max) THEN [outcome |-> "ok", value |-> cores_max.n]
            ELSE [outcome |-> "ok", value |-> 0]

GetRequiredNumCores ==
    /\ \E doc \in HintDocuments :
          /\ hint_doc' = doc
          /\ num_cores' = get_required_num_cores(doc)
    /\ UNCHANGED outsideHints

HintNext == GetRequiredNumCores

SpecHints == Init /\ [][HintNext]_vars

\* The value the claim gives for a document: coresMin when the
\* ResourceRequirement hint has one, else coresMax when it has one, else 0;
\* 0 without hints or without a ResourceRequirement hint.
HasNumber(field) == field.kind = "int"
ExpectedCores(doc) ==
    IF doc.hints \in {"absent", "null"} \/ doc.ResourceRequirement # "map" THEN 0
    ELSE IF HasNumber(doc.coresMin) THEN doc.coresMin.n
    ELSE IF HasNumber(doc.coresMax) THEN doc.coresMax.n
    ELSE 0

\* C23: get_required_num_cores returns coresMin whenever the
\* ResourceRequirement hint has it, coresMax only when coresMin is absent
\* and coresMax present, and 0 when the document has no hints, no
\* ResourceRequirement hint, or neither field.
C23_CoresMinThenMaxThenZero ==
    num_cores # NoCores =>
        num_cores = [outcome |-> "ok", value |-> ExpectedCores(hint_doc)]

\* For hints written as a mapping keyed by class the value is the one
\* above; for hints written as a list the call raises.
MappingHintsGiveCores ==
    num_cores # NoCores =>
        IF hint_doc.hints = "list"
        THEN num_cores.outcome = "AttributeError"
        ELSE num_cores = [outcome |-> "ok", value |-> ExpectedCores(hint_doc)]

\* A front-end request that addresses job j by its id.
AddressesJob(j) == CancelBegin(j) \/ DeleteBegin(j) \/ GetJobById(j) \/ GetJobLogById(j)

\* C24: a request of cancel_job_by_id, delete_job_by_id, get_job_by_id or
\* get_job_log_by_id for an id that is not in the registry ends in the
\* not-found outcome 404 and leaves every record of the registry as it was.
C24_AbsentJobIsNotFound ==
    [][\A j \in JobIds :
          (AddressesJob(j) /\ ~registry[j].exists)
              => (req'.pc = PcIdle /\ req'.code = 404 /\ registry' = registry)]_vars

\* Such a request ends at once and leaves the registry as it was; the two
\* read requests end in 404.
AbsentJobEndsRequest ==
    [][\A j \in JobIds :
          (AddressesJob(j) /\ ~registry[j].exists)
              => /\ req'.pc = PcIdle /\ registry' = registry /\ lock' = lock
                 /\ (GetJobById(j) \/ GetJobLogById(j)) => req'.code = 404]_vars

\* A delete_job_by_id request is under way.
InDelete == req.op = "delete" /\ req.pc # PcIdle

\* C25: delete_job_by_id on an existing job applies the cancellation and
\* then sets please_delete inside one exclusive scope: while the request is
\* under way the front end owns the scope and the registry changes by the
\* request's own steps only, the job it marks is no longer in SUBMITTED,
\* STAGING_IN, WAITING, RUNNING, FINISHED or STAGING_OUT, please_delete is
\* true when it returns, and no job is ever seen with please_delete true in
\* one of those six states.
C25_DeleteCancelsThenMarks ==
    /\ [](\A j \in JobIds : registry[j].please_delete => registry[j].state \notin BusyStates)
    /\ [][InDelete =>
            /\ lock.owner = "fe"
            /\ registry' # registry => (CancelStep \/ DeleteMark)]_vars
    /\ [][DeleteMark =>
            /\ registry[req.job].state \notin BusyStates
            /\ registry'[req.job].please_delete
            /\ registry'[req.job].state = registry[req.job].state
            /\ req'.code = 204 /\ lock'.owner = "none"]_vars

\* A deletion of a RUNNING job has returned: the job is marked and waits in
\* RUNNING_CR for its cancellation to be completed.
C25_Witness ==
    /\ req.op = "delete" /\ req.pc = PcIdle /\ req.code = 204
    /\ req.before = "RUNNING"
    /\ registry[req.job].state = "RUNNING_CR"
    /\ registry[req.job].please_delete

(***************************************************************************)
(* RemoteJobFiles.delete_job.  Besides the job at hand a second job has    *)
(* files on the remote machine; of that job the model keeps the files.     *)
(***************************************************************************)
\* The ids of the jobs with a directory under <base>/jobs.
RemoteJobIds == {JobDir[Len(JobDir)], "/other"}

\* _abs_path(job_id, '')
JobDirOf(job_id) == SubSeq(JobDir, 1, Len(JobDir) - 1) \o <<job_id>>

\* Whether path is dir or lies under it.
IsUnder(path, dir) == Len(path) >= Len(dir) /\ SubSeq(path, 1, Len(dir)) = dir

\* A variant for comparison: the directory of all the jobs is removed.
delete_job_AllJobs(fs, job_id) ==
    IF JobDirOf(job_id) \in fs
    THEN [outcome |-> "ok",
          fs |-> {path \in fs : ~IsUnder(path, SubSeq(JobDir, 1, Len(JobDir) - 1))}]
    ELSE [outcome |-> "ok", fs |-> fs]

\* delete_job(job_id): job_dir.rmdir(recursive=True) when job_dir exists.
delete_job(fs, job_id) ==
    IF JobDirOf(job_id) \in fs
    THEN [outcome |-> "ok", fs |-> {path \in fs : ~IsUnder(path, JobDirOf(job_id))}]
    ELSE [outcome |-> "ok", fs |-> fs]

DeleteJob(job_id) ==
    /\ "files" \in managers
    /\ remote_fs' = delete_job(remote_fs, job_id).fs
    /\ UNCHANGED <<managers, stageVars, installVars, outsideRemote>>

\* stage_job for the second job, which has no input files.
StageOtherJob ==
    /\ "files" \in managers
    /\ remote_fs' = remote_fs
                       \cup Ancestors(Append(JobDirOf("/other"), "/work"))
                       \cup {Append(JobDirOf("/other"), Slashed(n)) :
                                n \in {"name.txt", "workflow.cwl", "input.json"}}
    /\ UNCHANGED <<managers, stageVars, installVars, outsideRemote>>

DeleteNext ==
    \/ ProvideBaseDir
    \/ ConstructJobFiles
    \/ ~registry[JobAtHand].exists /\ PostJob
    \/ StageJob
    \/ StageOtherJob
    \/ \E job_id \in RemoteJobIds : DeleteJob(job_id)

SpecDelete == Init /\ [][DeleteNext]_vars

\* C26: delete_job(id) removes <base>/jobs/<id> and everything under it
\* when it exists and changes nothing when it does not, raises nothing,
\* leaves every path outside that directory as it was, and a second call
\* after the first changes nothing and raises nothing.
C26_DeleteJobRemovesOwnDirOnly ==
    [][\A job_id \in RemoteJobIds :
          DeleteJob(job_id) =>
              /\ delete_job(remote_fs, job_id).outcome = "ok"
              /\ \A path \in remote_fs' : ~IsUnder(path, JobDirOf(job_id))
              /\ \A path \in remote_fs : ~IsUnder(path, JobDirOf(job_id)) => path \in remote_fs'
              /\ remote_fs' \subseteq remote_fs
              /\ JobDirOf(job_id) \notin remote_fs => remote_fs' = remote_fs
              /\ delete_job(remote_fs', job_id) = [outcome |-> "ok", fs |-> remote_fs']]_vars

\* The job at hand was staged with input files and its directory has been
\* deleted since, with all that was in it; the files of the other job are
\* still there.
C26_Witness ==
    /\ stage_result.outcome = "ok" /\ stage_result.count > 1
    /\ \A path \in remote_fs : ~IsUnder(path, JobDir)
    /\ Append(JobDirOf("/other"), "/input.json") \in remote_fs
    /\ Append(JobDirOf("/other"), "/work") \in remote_fs

(***************************************************************************)
(* What stage_job does to the input description and how it numbers the    *)
(* files it stages.                                                        *)
(***************************************************************************)
\* An input file and its secondary files, depth first.
RECURSIVE FlatFile(_), FlatFiles(_)
FlatFile(file) == <<file>> \o FlatFiles(file.secondary_files)
FlatFiles(files) ==
    IF files = <<>> THEN <<>> ELSE FlatFile(Head(files)) \o FlatFiles(Tail(files))

\* The remote path of a file staged with the count n.
TargetOf(n, file) ==
    WorkDir \o <<"/">> \o create_input_filename(zfill(str(n), PadWidth), file.location)

\* Entry `new` is entry `old` with the location of the staged file put in,
\* and likewise the k-th entry of its secondaryFiles for the k-th
\* secondary file; nothing else differs.
RECURSIVE Touched(_, _, _, _)
Touched(old, new, file, fs) ==
    /\ new.class = old.class /\ new.items = old.items
    /\ \E n \in 1..Cardinality(fs) : new.location = TargetOf(n, file)
    /\ new.location \in fs
    /\ IsUnder(new.location, WorkDir)
    /\ Len(new.secondaryFiles) = Len(old.secondaryFiles)
    /\ \A k \in 1..Len(old.secondaryFiles) :
          IF k <= Len(file.secondary_files)
          THEN Touched(old.secondaryFiles[k], new.secondaryFiles[k], file.secondary_files[k], fs)
          ELSE new.secondaryFiles[k] = old.secondaryFiles[k]

\* The value `new` of a key is its value `old` with the entries addressed
\* by the input files of that key rewritten, and every other entry and
\* array slot as it was.
ValueRewritten(old, new, files, fs) ==
    IF IsList(old)
    THEN /\ new.class = old.class /\ new.location = old.location
         /\ new.secondaryFiles = old.secondaryFiles
         /\ Len(new.items) = Len(old.items)
         /\ \A slot \in 1..Len(old.items) :
               IF \E f \in files : f.index = <<slot - 1>>
               THEN \E f \in files :
                       f.index = <<slot - 1>> /\ Touched(old.items[slot], new.items[slot], f, fs)
               ELSE new.items[slot] = old.items[slot]
    ELSE IF \E f \in files : f.index = <<>>
    THEN \E f \in files : f.index = <<>> /\ Touched(old, new, f, fs)
    ELSE new = old

FilesNamed(input_files, name) ==
    {input_files[k] : k \in {m \in 1..Len(input_files) : input_files[m].name = name}}

\* C28: the input description a stage_job call writes to input.json is the
\* job's input with the location rewritten of exactly the entries whose
\* files were staged (inputs[n][i] for a file with index i, inputs[n] for
\* one without, the k-th secondaryFiles entry for the k-th secondary
\* file), each to the path under <base>/jobs/<id>/work/ the file was
\* copied to; every other slot and field is as it was.
C28_StagedEntriesRewritten ==
    [][\A case \in StageCases :
          (stage_result'.outcome = "ok" /\ StageJobWith(case, "none")) =>
              /\ staged_input'.written
              /\ Len(staged_input'.inputs) = Len(case.inputs)
              /\ \A k \in 1..Len(case.inputs) :
                    /\ staged_input'.inputs[k].name = case.inputs[k].name
                    /\ ValueRewritten(case.inputs[k].value, staged_input'.inputs[k].value,
                                      FilesNamed(case.input_files, case.inputs[k].name),
                                      remote_fs')]_vars

\* A job was staged whose input has a file with a secondary file at one
\* key and a list with a scalar and a file at another: the file in the
\* list has its location under the work directory, the scalar beside it
\* is as it was.
C28_Witness ==
    /\ stage_result.outcome = "ok"
    /\ staged_input.written
    /\ Len(staged_input.inputs) = 2
    /\ IsUnder(staged_input.inputs[1].value.location, WorkDir)
    /\ IsUnder(staged_input.inputs[1].value.secondaryFiles[1].location, WorkDir)
    /\ staged_input.inputs[2].value.items[1] = Scalar
    /\ IsUnder(staged_input.inputs[2].value.items[2].location, WorkDir)

\* C29: one count starting at 1 is shared by all the files of a stage_job
\* call: the n-th file, depth first, is copied to the name made with n;
\* _stage_input_file returns the count it was given plus the number of
\* files of the subtree it staged; and the remote names of the files of
\* one call are pairwise different, also for equal original locations.
C29_OneCountDepthFirst ==
    [][\A case \in StageCases :
          (stage_result'.outcome = "ok" /\ StageJobWith(case, "none")) =>
              LET flat == FlatFiles(case.input_files)
              IN /\ stage_result'.count = 1 + Len(flat)
                 /\ \A n \in 1..Len(flat) : TargetOf(n, flat[n]) \in remote_fs'
                 /\ OutputLocations(staged_input'.inputs)
                        = {TargetOf(n, flat[n]) : n \in 1..Len(flat)}
                 /\ \A m, n \in 1..Len(flat) :
                        m # n => TargetOf(m, flat[m]) # TargetOf(n, flat[n])
                 /\ \A k \in 1..Len(case.input_files), count \in 1..3 :
                        StageInputFile(count, case.input_files[k],
                                       File(case.input_files[k].location,
                                            [i \in 1..Len(case.input_files[k].secondary_files) |->
                                                File(case.input_files[k].secondary_files[i].location,
                                                     <<>>)]),
                                       "none").count
                            = count + Len(FlatFile(case.input_files[k]))]_vars

\* Two files with the same original location were staged in one call, to
\* two different names.
C29_Witness ==
    /\ stage_result = [outcome |-> "ok", count |-> 3]
    /\ staged_input.written
    /\ Len(staged_input.inputs) = 1
    /\ Len(staged_input.inputs[1].value.items) = 2
    /\ staged_input.inputs[1].value.items[1].location
          # staged_input.inputs[1].value.items[2].location
    /\ LET first == staged_input.inputs[1].value.items[1].location
           second == staged_input.inputs[1].value.items[2].location
           from == Len(WorkDir) + PadWidth + 2
       IN SubSeq(first, from, Len(first)) = SubSeq(second, from, Len(second))

\* Whether a stage_job call gets to the remote operation `fault`.
Met(case, fault) ==
    \/ fault \in {"mkdir", "name.txt", "workflow.cwl"}
    \/ fault = "copy" /\ case.input_files # <<>>
    \/ fault = "input.json"
         /\ StageInputs(case.inputs, case.input_files, 1, 1, "none", {}).outcome = "ok"

\* C30: a remote copy or write that fails during stage_job raises out of
\* the call, which then writes no input description; and no stage_job
\* call, failing or not, changes the lifecycle state or the please_delete
\* flag of a job.
C30_StageFailurePropagates ==
    /\ [][registry' # registry => ~StageJob]_vars
    /\ [][~(stage_result'.outcome = "IOError" /\ staged_input' = staged_input) =>
            \A case \in StageCases, fault \in Faults :
                ~(/\ registry[JobAtHand].exists
                  /\ Met(case, fault)
                  /\ StageJobWith(case, fault))]_vars

\* A stage_job call failed after the workflow was written while the job
\* was SUBMITTED: the job still is, and is not marked for deletion.
C30_Witness ==
    /\ stage_result = [outcome |-> "IOError", count |-> 2]
    /\ registry[JobAtHand].exists
    /\ registry[JobAtHand].state = "SUBMITTED"
    /\ ~registry[JobAtHand].please_delete
    /\ abs_path("workflow.cwl") \in remote_fs
    /\ abs_path("input.json") \notin remote_fs

(***************************************************************************)
(* stage_job step by step, beside the requests of the front end: the scope *)
(* of the job store it opens, the scope _stage_input_file opens inside it  *)
(* for every file, and the fields of the job written on the way.           *)
(***************************************************************************)
Staging == stage_result.outcome = "staging"

\* What a step of stage_job leaves alone besides the store's scope.
ScopeLeaves ==
    UNCHANGED <<registry, req, managers, installVars, classifyVars, updateVars,
                bindingVars, destageVars, filenameVars, translateVars, hintVars, stepVars>>

\* A variant for comparison: leaving the scope of _stage_input_file leaves
\* the scope of stage_job with it.
nested_info_Releases(l) == FreeLock

\* `with self._job_store:` get_job and job.info inside _stage_input_file,
\* entered and left again by the thread that is inside stage_job's scope.
nested_info(l) == StoreExit(StoreEnter(l, "be"), "be")

\* stage_job from entering the scope to the workflow path: the job's
\* directories are made, name.txt and workflow.cwl written, and
\* remote_workdir_path and remote_workflow_path set.
ScopeOpen ==
    /\ "files" \in managers
    /\ ~Staging
    /\ lock.owner = "none"
    /\ registry[JobAtHand].exists
    /\ lock' = StoreEnter(lock, "be")
    /\ remote_fs' = mkdir(mkdir(remote_fs, abs_path(""), TRUE, TRUE).fs,
                          abs_path("work"), TRUE, TRUE).fs
                       \cup {abs_path("name.txt"), abs_path("workflow.cwl")}
    /\ job_paths' = StagedPaths(2)
    /\ stage_result' = [outcome |-> "staging", count |-> 1]
    /\ UNCHANGED staged_input
    /\ ScopeLeaves

\* One call of _stage_input_file for a file without secondary files: the
\* nested scope for job.info, then the copy.
ScopeFile ==
    /\ Staging
    /\ stage_result.count <= MaxScopeFiles
    /\ lock' = nested_info(lock)
    /\ remote_fs' = remote_fs
                       \cup {TargetOf(stage_result.count, StageFile("a", <<>>, LocalA, <<>>))}
    /\ stage_result' = [stage_result EXCEPT !.count = @ + 1]
    /\ UNCHANGED <<job_paths, staged_input>>
    /\ ScopeLeaves

\* A copy fails: the error leaves the call and with it the scope.
ScopeFail ==
    /\ Staging
    /\ stage_result.count <= MaxScopeFiles
    /\ lock' = StoreExit(nested_info(lock), "be")
    /\ stage_result' = [stage_result EXCEPT !.outcome = "IOError"]
    /\ UNCHANGED <<remote_fs, job_paths, staged_input>>
    /\ ScopeLeaves

\* stage_job from the input description to the end of the scope:
\* input.json is written and the last five path fields are set.
ScopeClose ==
    /\ Staging
    /\ lock' = StoreExit(lock, "be")
    /\ remote_fs' = remote_fs \cup {abs_path("input.json")}
    /\ job_paths' = StagedPaths(3)
    /\ staged_input' = [written |-> TRUE, inputs |-> <<>>]
    /\ stage_result' = [stage_result EXCEPT !.outcome = "ok"]
    /\ ScopeLeaves

ScopeNext ==
    \/ ProvideBaseDir
    \/ ConstructJobFiles
    \/ ~registry[JobAtHand].exists /\ PostJob
    \/ ScopeOpen
    \/ ScopeFile
    \/ ScopeFail
    \/ ScopeClose
    \/ GetJobById(JobAtHand)
    \/ GetJobLogById(JobAtHand)
    \/ CancelBegin(JobAtHand)
    \/ CancelStep
    \/ CancelEnd
    \/ DeleteBegin(JobAtHand)
    \/ DeleteCancelled
    \/ DeleteMark

SpecScope == Init /\ [][ScopeNext]_vars

\* C27: from the first path field stage_job writes to the last, the scope
\* of the job store stays with the back end, also across the scopes
\* _stage_input_file enters and leaves for every file, and no request of
\* the front end reads or changes the job in between.
C27_StageScopeUninterrupted ==
    [][Staging =>
          /\ lock.owner = "be" /\ lock.depth = 1
          /\ registry' = registry
          /\ req' = req
          /\ (ScopeFile \/ ScopeFail \/ ScopeClose)]_vars

\* Two files have been staged, each inside its own nested scope, after a
\* request of the front end had cancelled the job: the call is still
\* under way with its first fields written and its last not yet.
C27_Witness ==
    /\ Staging
    /\ stage_result.count = 3
    /\ lock = [owner |-> "be", depth |-> 1]
    /\ job_paths["remote_workdir_path"] = abs_path("work")
    /\ job_paths["remote_system_err_path"] = <<>>
    /\ req.op = "cancel" /\ req.code = 200

(***************************************************************************)
(* RemoteApi._translate_api_step: the macro substitution on a step file.   *)
(* A string of the step is a sequence of tokens, the macro being one.      *)
(***************************************************************************)
Macro == "$CERISE_API_FILES"
Blank == " "
CommandTokens == {Macro, Blank, "x"}

\* files_dir = remote_project_dir / 'files', and str(files_dir).
FilesDirOf(project) == RemoteApiDir \o <<project, "/files">>

\* The values of baseCommand in the step files given: none, a string, or
\* a list of strings (which CWL allows as well).
CommandTexts == UNION {[1..n -> CommandTokens] : n \in 0..MaxCommandLen}
BaseCommands ==
    {[kind |-> "absent", s |-> <<>>], [kind |-> "list", s |-> <<>>]}
        \cup {[kind |-> "str", s |-> s] : s \in CommandTexts}

\* The elements of an arguments array: strings, and a number as in
\* `arguments: [-n, 5]`.
ArgumentValues ==
    {[kind |-> "str", s |-> s] :
        s \in {<<"x">>, <<Macro>>, <<"x", Macro>>, <<Macro, "x", Macro>>}}
        \cup {[kind |-> "int", s |-> <<>>]}

\* The values of arguments: none, an array, or a single string.
ArgumentFields ==
    {[kind |-> "absent", items |-> <<>>], [kind |-> "str", items |-> <<>>]}
        \cup {[kind |-> "list", items |-> items] :
                 items \in UNION {[1..n -> ArgumentValues] : n \in 0..MaxArguments}}

\* The step files given: yaml.safe_load(workflow_path.read_text()), and
\* the project they are staged for.
StepDocuments ==
    [project : {"/projA", "/projB"}, class : {"CommandLineTool", "Workflow"},
     baseCommand : BaseCommands, arguments : ArgumentFields]

\* str.lstrip()
RECURSIVE lstrip(_)
lstrip(s) == IF s # <<>> /\ Head(s) = Blank THEN lstrip(Tail(s)) ELSE s

\* str.startswith(prefix) for a prefix of one token.
startswith(s, prefix) == s # <<>> /\ Head(s) = prefix

\* str.replace(old, new, count) for an old of one token; count -1 stands
\* for no count given: every occurrence.
RECURSIVE replace(_, _, _, _)
replace(s, old, new, count) ==
    IF s = <<>> THEN <<>>
    ELSE IF Head(s) = old /\ count # 0
    THEN new \o replace(Tail(s), old, new, count - 1)
    ELSE <<Head(s)>> \o replace(Tail(s), old, new, count)

\* Lines 166-169: the baseCommand of the step.  A list has no lstrip.
translate_base_command(base, files_dir) ==
    IF base.kind = "absent" THEN [outcome |-> "ok", value |-> base]
    ELSE IF base.kind = "list" THEN [outcome |-> "AttributeError", value |-> base]
    ELSE IF startswith(lstrip(base.s), Macro)
    THEN [outcome |-> "ok", value |-> [base EXCEPT !.s = replace(base.s, Macro, files_dir, 1)]]
    ELSE [outcome |-> "ok", value |-> base]

\* Lines 171-181: the arguments of the step.  The message of the error
\* for arguments that are no list names `filename`, which this function
\* does not have; a number has no replace.
translate_arguments(arguments, files_dir) ==
    IF arguments.kind = "absent" THEN [outcome |-> "ok", value |-> arguments]
    ELSE IF arguments.kind # "list" THEN [outcome |-> "NameError", value |-> arguments]
    ELSE IF \E i \in 1..Len(arguments.items) : arguments.items[i].kind # "str"
    THEN [outcome |-> "AttributeError", value |-> arguments]
    ELSE [outcome |-> "ok",
          value |-> [arguments EXCEPT !.items =
                        [i \in 1..Len(arguments.items) |->
                            [arguments.items[i] EXCEPT
                                !.s = replace(@, Macro, files_dir, -1)]]]]

\* _translate_api_step(workflow_path, remote_project_dir): the document
\* returned, or the error raised.
translate_api_step(doc) ==
    LET files_dir == FilesDirOf(doc.project)
        base == translate_base_command(doc.baseCommand, files_dir)
        args == translate_arguments(doc.arguments, files_dir)
    IN IF doc.class # "CommandLineTool" THEN [outcome |-> "ok", cwlfile |-> doc]
       ELSE IF base.outcome # "ok" THEN [outcome |-> base.outcome, cwlfile |-> NoStep]
       ELSE IF args.outcome # "ok" THEN [outcome |-> args.outcome, cwlfile |-> NoStep]
       ELSE [outcome |-> "ok",
             cwlfile |-> [doc EXCEPT !.baseCommand = base.value, !.arguments = args.value]]

\* One step file is translated.
TranslateApiStep ==
    /\ step_result = NoStepResult
    /\ \E doc \in StepDocuments :
          /\ step_doc' = doc
          /\ step_result' = translate_api_step(doc)
    /\ UNCHANGED outsideSteps

StepNext == TranslateApiStep

SpecSteps == Init /\ [][StepNext]_vars

\* What the statement gives for a baseCommand and for an element of
\* arguments.
ClaimedCommand(base, files_dir) ==
    IF base.kind = "str" /\ startswith(base.s, Macro)
    THEN [base EXCEPT !.s = files_dir \o Tail(base.s)]
    ELSE base
ClaimedArgument(argument, files_dir) ==
    [argument EXCEPT !.s = replace(@, Macro, files_dir, -1)]

\* C31: for a CommandLineTool step, the macro in baseCommand is replaced,
\* once, if and only if baseCommand starts with it, and a baseCommand that
\* does not start with it is written as it was; in every element of an
\* arguments array the macro is replaced.
C31_MacroAtStartAndInArguments ==
    (step_result # NoStepResult /\ step_doc.class = "CommandLineTool"
        /\ step_doc.arguments.kind # "str") =>
        /\ step_result.outcome = "ok"
        /\ step_result.cwlfile.baseCommand
              = ClaimedCommand(step_doc.baseCommand, FilesDirOf(step_doc.project))
        /\ Len(step_result.cwlfile.arguments.items) = Len(step_doc.arguments.items)
        /\ \A i \in 1..Len(step_doc.arguments.items) :
              step_result.cwlfile.arguments.items[i]
                  = ClaimedArgument(step_doc.arguments.items[i], FilesDirOf(step_doc.project))

\* What does hold: a step whose baseCommand is a string (or absent) and
\* whose arguments are strings is translated, the macro in baseCommand
\* being replaced once when the first thing after leading blanks is the
\* macro; a baseCommand list and an argument that is no string end the
\* call with an error.
TextStepsAreTranslated ==
    (step_result # NoStepResult /\ step_doc.class = "CommandLineTool"
        /\ step_doc.arguments.kind # "str") =>
        LET files_dir == FilesDirOf(step_doc.project)
            base == step_doc.baseCommand
            items == step_doc.arguments.items
            blanks == Len(base.s) - Len(lstrip(base.s))
        IN IF base.kind = "list" \/ \E i \in 1..Len(items) : items[i].kind # "str"
           THEN step_result.outcome = "AttributeError"
           ELSE /\ step_result.outcome = "ok"
                /\ step_result.cwlfile.baseCommand.s
                      = IF blanks < Len(base.s) /\ base.s[blanks + 1] = Macro
                        THEN SubSeq(base.s, 1, blanks) \o files_dir
                                \o SubSeq(base.s, blanks + 2, Len(base.s))
                        ELSE base.s
                /\ \A i \in 1..Len(items) :
                      step_result.cwlfile.arguments.items[i]
                          = ClaimedArgument(items[i], files_dir)

(***************************************************************************)
(* The state a cancellation or deletion leaves a job in.                   *)
(***************************************************************************)
\* C32: when a cancel_job_by_id or delete_job_by_id request on an existing
\* job completes, the job is in a terminal or CR state, so in none of
\* SUBMITTED, STAGING_IN, WAITING, RUNNING, FINISHED and STAGING_OUT, and
\* no step of the front end takes it out of those states again; a cancel
\* request that finds the job so fires no transition, changes nothing in
\* the registry and answers as the first did.
C32_CancelledOnceAndForAll ==
    /\ [][(CancelEnd \/ DeleteMark) =>
            /\ registry'[req.job].state \in CRStates \cup TerminalStates
            /\ registry'[req.job].state \notin BusyStates]_vars
    /\ [][(FrontEndStep /\ req.pc # PcIdle /\ req.before \notin BusyStates) =>
            /\ registry'[req.job].state = req.before
            /\ req'.fired = 0
            /\ CancelStep => registry' = registry
            /\ CancelEnd => (registry' = registry /\ req'.code = 200)]_vars

\* A cancel request on a job that an earlier request had left in a CR
\* state, and that the polling cycle had not yet picked up, has completed:
\* no transition fired and the job is in the same CR state.
C32_Witness ==
    /\ req.op = "cancel"
    /\ req.pc = PcIdle
    /\ req.code = 200
    /\ req.before \in CRStates
    /\ req.fired = 0
    /\ registry[req.job].exists
    /\ registry[req.job].state = req.before

(***************************************************************************)
(* How the secondary files get_secondary_files returns line up with the    *)
(* secondaryFiles entries they were made from.                             *)
(***************************************************************************)
\* The k-th file describes the k-th entry, for every k and at every depth.
RECURSIVE Paired(_, _)
Paired(secondary_files, files) ==
    /\ Len(files) = Len(secondary_files)
    /\ \A k \in 1..Len(secondary_files) :
          /\ secondary_files[k].class = "File"
          /\ files[k].location = secondary_files[k].location
          /\ Paired(secondary_files[k].secondaryFiles, files[k].secondary_files)

\* The File entries of a secondaryFiles list, in order.
RECURSIVE FileEntries(_)
FileEntries(secondary_files) ==
    IF secondary_files = <<>> THEN <<>>
    ELSE (IF Head(secondary_files).class = "File" THEN <<Head(secondary_files)>> ELSE <<>>)
            \o FileEntries(Tail(secondary_files))

\* Whether every entry of a secondaryFiles list is a dict, at every depth.
RECURSIVE AllDicts(_)
AllDicts(secondary_files) ==
    \A k \in 1..Len(secondary_files) :
        IsDict(secondary_files[k]) /\ AllDicts(secondary_files[k].secondaryFiles)

\* C33: for every secondaryFiles list of a binding that
\* get_secondary_files accepts, the list returned is as long as the list
\* given and its k-th file describes the k-th entry, at every depth, which
\* is the pairing _stage_input_file relies on.
C33_SecondaryFilesPaired ==
    bresult # NoResult =>
        \A sf \in SecondaryListsOf(binding) :
            get_secondary_files(sf).outcome = "ok" =>
                Paired(sf, get_secondary_files(sf).files)

\* A stage_job call has paired the file of the second secondaryFiles entry
\* with the first entry, which is no dict: the file was copied and the
\* call ended in an error at the assignment of the location.
MispairedStagingRaises ==
    /\ stage_result = [outcome |-> "TypeError", count |-> 3]
    /\ TargetOf(2, StageFile(None, <<>>, LocalIdx, <<>>)) \in remote_fs
    /\ abs_path("input.json") \notin remote_fs

\* What does hold: the files returned are those of the File entries of the
\* list, in order, entries that are no dicts being passed over; so the
\* k-th file describes the k-th entry when every entry is a dict.
FileEntriesAreReturned ==
    bresult # NoResult =>
        \A sf \in SecondaryListsOf(binding) :
            LET got == get_secondary_files(sf)
            IN got.outcome = "ok" =>
                  /\ Len(got.files) = Len(FileEntries(sf))
                  /\ \A k \in 1..Len(got.files) :
                        got.files[k].location = FileEntries(sf)[k].location
                  /\ AllDicts(sf) => Paired(sf, got.files)

====
